---- MODULE Spec2Model ----
(***************************************************************************)
(* A model of the definition reconciliation code of ccrm-agents:           *)
(*   src/src/tool_manager.py      ToolManager                              *)
(*   src/src/agent_manager.py     AgentManager                             *)
(*   src/src/workflow_manager.py  WorkflowManager                          *)
(*                                                                         *)
(* The database is modelled as the tables the SQL statements name.  A      *)
(* table is a set of rows; a key is unique where a statement's ON CONFLICT *)
(* clause names it.  Every manager owns one psycopg2 connection: a         *)
(* statement is visible to that connection at once and to the committed    *)
(* state only after conn.commit(); conn.close() without commit discards    *)
(* the pending statements.  A statement the server rejects leaves the      *)
(* connection's transaction aborted: every later statement on it raises.   *)
(* The repository holds no DDL: the tables carry no foreign key, so no      *)
(* statement is rejected or cascaded on behalf of another table.           *)
(***************************************************************************)
EXTENDS Bags, FiniteSets, Integers, Sequences, TLC

VARIABLES
    agentRows,   \* committed rows of metadata.system_agent / metadata.common_background_agent
    amTx,        \* the agent rows as the AgentManager's connection sees them
    toolRows,    \* committed rows of metadata.system_tool
    assocRows,   \* committed rows of metadata.system_agent_tool / common_background_agent_tool
    agentDirs,   \* definitions/<scope>/Agents/<name>: systemPrompt.md + jsonSchema.json
    am,          \* the running AgentManager call
    tm,          \* the running ToolManager call
    hist,        \* the previous completed sync_agent_to_db and the database it left
    wfDb,        \* committed rows of system_agent_workflow, _node and _edge
    wfTx,        \* the same three tables as the WorkflowManager's connection sees them
    wfDirs,      \* definitions/<scope>/AgenticWorkflows/<id>/workflow.json
    wm,          \* the running WorkflowManager call
    edited,      \* a workflow.json was rewritten and no command has read it yet
    uuids,       \* number of uuid.uuid4() values drawn so far
    calls        \* number of ToolManager commands started so far

vars == <<agentRows, amTx, toolRows, assocRows, agentDirs, am, tm, hist,
          wfDb, wfTx, wfDirs, wm, edited, uuids, calls>>

agentVars == <<agentRows, amTx, agentDirs, am, hist>>
toolVars  == <<toolRows, assocRows, tm>>
wfVars    == <<wfDb, wfTx, wfDirs, wm, edited>>
notToolVars == <<agentVars, wfVars, uuids, calls>>

(***************************************************************************)
(* Bounds of the model.                                                    *)
(***************************************************************************)
MaxTools == 2      \* longest declared tool list
MaxUuids == 2      \* uuid.uuid4() values drawn in one run of the model
MaxNodes == 2      \* longest node list of a workflow definition
MaxPrompt == 2     \* longest text of systemPrompt.md, in characters
MaxGraph == 3        \* nodes of a workflow definition that is validated

(***************************************************************************)
(* Values.                                                                 *)
(***************************************************************************)
None == "None"                                   \* Python None / SQL NULL / absent key
Scopes == {"SYSTEM", "COMMON_BACKGROUND"}
AgentIds == {"a1", "a2"}
ToolIds == {"t1", "t2", "t3"}
Names == {"alice", "bob"}
UuidPool == <<"u1", "u2", "u3", "u4", "u5", "u6", "u7", "u8">>

\* uuid.uuid4(): a value no earlier draw returned
uuid4 == UuidPool[uuids + 1]

RECURSIVE SeqsUpTo(_, _)
SeqsUpTo(S, n) ==
    IF n = 0 THEN {<<>>}
    ELSE LET shorter == SeqsUpTo(S, n - 1)
         IN shorter \cup {Append(s, x) : s \in {t \in shorter : Len(t) = n - 1}, x \in S}

Range(s) == {s[k] : k \in 1..Len(s)}

\* texts are sequences of characters; " " stands for any whitespace character
Chars == {" ", "x"}
Prompts == SeqsUpTo(Chars, MaxPrompt)
Descriptions == {"", "helper"}

\* str.strip(): the text without its leading and trailing whitespace
RECURSIVE strip(_)
strip(t) ==
    IF t = <<>> THEN t
    ELSE IF Head(t) = " " THEN strip(Tail(t))
    ELSE IF t[Len(t)] = " " THEN strip(SubSeq(t, 1, Len(t) - 1))
    ELSE t

\* f"You are {name}, a helpful AI assistant."
default_prompt(name) == <<"You are ", name, ", a helpful AI assistant.">>

\* system_prompt or f"You are ...": Python's "or" on a text
prompt_or(text, other) == IF text = <<>> THEN other ELSE text

\* agent['description'] or ''
description_or_empty(d) == IF d = None THEN "" ELSE d

(***************************************************************************)
(* Declared tool entries of jsonSchema.json.  res is how the database      *)
(* answers the upsert of the entry: "ok"; "client_error", psycopg2 raises  *)
(* before the statement is sent (a value it cannot adapt); "server_error", *)
(* the server rejects the statement and the transaction is aborted.        *)
(***************************************************************************)
ToolEntries ==
    { [toolId |-> "t1", name |-> "search", res |-> "ok"],
      [toolId |-> "t2", name |-> "fetch",  res |-> "ok"],
      [toolId |-> "t3", name |-> "calc",   res |-> "ok"],
      [toolId |-> "t3", name |-> "calc",   res |-> "client_error"],
      [toolId |-> "t3", name |-> "calc",   res |-> "server_error"],
      [toolId |-> None, name |-> "anon",   res |-> "ok"] }

ToolLists == SeqsUpTo(ToolEntries, MaxTools)

\* the entry of ToolEntries with the tool id and the answer
ToolEntry(t, res) == CHOOSE e \in ToolEntries : e.toolId = t /\ e.res = res

(***************************************************************************)
(* ToolManager                                                             *)
(***************************************************************************)
TmIdle == [pc |-> "idle", caller |-> None, agent |-> None, scope |-> None,
           tools |-> <<>>, i |-> 0, current |-> {}, new |-> {}, todo |-> {},
           added |-> 0, removed |-> 0, aborted |-> FALSE,
           before |-> {},     \* the association rows when the call began
           op |-> None, tool |-> None, force |-> FALSE, count |-> 0,
           result |-> None, orphans |-> {}, deleted |-> 0,
           txTools |-> {}, txAssoc |-> {},   \* the tables as the connection sees them
           toolsBefore |-> {},               \* the tool rows when the call began
           failed |-> None,                  \* the tool whose DELETE raised
           conn |-> FALSE, cursor |-> FALSE] \* self.conn and self.cursor are open

\* ToolManager.__enter__: self.conn = get_db_connection(); self.cursor = get_db_cursor(self.conn)
TmEnter == [TmIdle EXCEPT !.conn = TRUE, !.cursor = TRUE]

\* SELECT "toolId" FROM {agent_tool_table} WHERE "agentId" = %s
AgentToolIds(rows, scope, agent) ==
    {r.toolId : r \in {x \in rows : x.scope = scope /\ x.agentId = agent}}

\* INSERT INTO metadata.system_tool ... ON CONFLICT (id) DO UPDATE SET "toolName" = ...
create_tool(rows, toolId, toolName) ==
    {r \in rows : r.id # toolId} \cup {[id |-> toolId, name |-> toolName]}

\* SELECT * FROM metadata.system_tool WHERE id = %s
get_tool(rows, toolId) == \E r \in rows : r.id = toolId

\* INSERT INTO {agent_tool_table} ... ON CONFLICT ("agentId", "toolId") DO NOTHING
associate_tool_with_agent(rows, scope, agent, toolId) ==
    rows \cup {[scope |-> scope, agentId |-> agent, toolId |-> toolId]}

\* a DELETE whose WHERE names the tool only
disassociate_tool_from_agent_any(rows, scope, agent, toolId) ==
    {r \in rows : ~(r.scope = scope /\ r.toolId = toolId)}

\* DELETE FROM {agent_tool_table} WHERE "agentId" = %s AND "toolId" = %s
disassociate_tool_from_agent(rows, scope, agent, toolId) ==
    rows \ {[scope |-> scope, agentId |-> agent, toolId |-> toolId]}

\* tools_to_remove = current_tool_ids - new_tool_ids
\* a diff that drops no association
tools_to_remove_none(current, new) == {}

tools_to_remove(current, new) == current \ new

\* for tool_id in new_tool_ids: if tool_id not in current_tool_ids
tools_to_add(current, new) == new \ current

\* with ToolManager() as tm: tm.sync_agent_tools(agent_id, tools, scope)
\* the SELECT of the current associations
sync_agent_tools_Begin(caller, agent, tools, scope) ==
    /\ tm.pc = "idle"
    /\ tm' = [TmEnter EXCEPT !.pc = "upsert", !.op = "sync_agent_tools",
                            !.caller = caller, !.agent = agent,
                            !.scope = scope, !.tools = tools, !.i = 1,
                            !.current = AgentToolIds(assocRows, scope, agent),
                            !.before = assocRows]
    /\ UNCHANGED <<toolRows, assocRows>>

\* one turn of "for tool_data in tools"
sync_agent_tools_Upsert ==
    /\ tm.pc = "upsert"
    /\ tm.i <= Len(tm.tools)
    /\ LET e == tm.tools[tm.i]
       IN IF e.toolId = None
          THEN \* if not tool_id: continue
               /\ tm' = [tm EXCEPT !.i = @ + 1]
               /\ UNCHANGED toolRows
          ELSE IF tm.aborted
          THEN \* execute raises InFailedSqlTransaction; except Exception: continue
               /\ tm' = [tm EXCEPT !.i = @ + 1]
               /\ UNCHANGED toolRows
          ELSE IF e.res = "ok"
          THEN /\ toolRows' = create_tool(toolRows, e.toolId, e.name)
               /\ tm' = [tm EXCEPT !.i = @ + 1, !.new = @ \cup {e.toolId}]
          ELSE \* create_tool raises; except Exception: continue
               /\ tm' = [tm EXCEPT !.i = @ + 1,
                                   !.aborted = (e.res = "server_error")]
               /\ UNCHANGED toolRows
    /\ UNCHANGED <<assocRows, notToolVars>>

\* the loop over the declared tools has ended
sync_agent_tools_Diff ==
    /\ tm.pc = "upsert"
    /\ tm.i > Len(tm.tools)
    /\ tm' = [tm EXCEPT !.pc = "remove", !.todo = tools_to_remove(tm.current, tm.new)]
    /\ UNCHANGED <<toolRows, assocRows, notToolVars>>

\* one turn of "for tool_id in tools_to_remove" (a set: any order)
sync_agent_tools_Remove ==
    /\ tm.pc = "remove"
    /\ \E t \in tm.todo :
        IF tm.aborted
        THEN \* the DELETE raises on the aborted transaction: nothing catches it
             /\ tm' = [tm EXCEPT !.pc = "raised"]
             /\ UNCHANGED assocRows
        ELSE /\ assocRows' = disassociate_tool_from_agent(assocRows, tm.scope, tm.agent, t)
             /\ tm' = [tm EXCEPT !.todo = @ \ {t},
                         !.removed = IF [scope |-> tm.scope, agentId |-> tm.agent, toolId |-> t]
                                         \in assocRows
                                     THEN @ + 1 ELSE @]
    /\ UNCHANGED <<toolRows, notToolVars>>

\* a sync that starts to add while associations are still to be removed
sync_agent_tools_AddBegin_early ==
    /\ tm.pc = "remove"
    /\ tm' = [tm EXCEPT !.pc = "add", !.todo = tools_to_add(tm.current, tm.new)]
    /\ UNCHANGED <<toolRows, assocRows, notToolVars>>

\* the removals have ended
sync_agent_tools_AddBegin ==
    /\ tm.pc = "remove"
    /\ tm.todo = {}
    /\ tm' = [tm EXCEPT !.pc = "add", !.todo = tools_to_add(tm.current, tm.new)]
    /\ UNCHANGED <<toolRows, assocRows, notToolVars>>

\* one turn of "for tool_id in new_tool_ids" that passes "not in current_tool_ids"
sync_agent_tools_Add ==
    /\ tm.pc = "add"
    /\ \E t \in tm.todo :
        IF tm.aborted \/ ~get_tool(toolRows, t)
        THEN \* get_tool raises on the aborted transaction, or "Tool not found"
             /\ tm' = [tm EXCEPT !.pc = "raised"]
             /\ UNCHANGED assocRows
        ELSE /\ assocRows' = associate_tool_with_agent(assocRows, tm.scope, tm.agent, t)
             /\ tm' = [tm EXCEPT !.todo = @ \ {t}, !.added = @ + 1]
    /\ UNCHANGED <<toolRows, notToolVars>>

\* return {"created": 0, "updated": 0, "added": ..., "removed": ...}
sync_agent_tools_Return ==
    /\ tm.pc = "add"
    /\ tm.todo = {}
    /\ tm' = [tm EXCEPT !.pc = "done"]
    /\ UNCHANGED <<toolRows, assocRows, notToolVars>>

\* the DELETE of disassociate_tool_from_agent raises (the server rejects it or
\* the connection is lost): nothing in sync_agent_tools catches it
sync_agent_tools_RemoveFails ==
    /\ tm.pc = "remove"
    /\ \E t \in tm.todo : tm' = [tm EXCEPT !.pc = "raised", !.failed = t]
    /\ UNCHANGED <<toolRows, assocRows, notToolVars>>

\* a count that looks at the SYSTEM table only
association_count_system(rows, toolId) ==
    Cardinality({r \in rows : r.scope = "SYSTEM" /\ r.toolId = toolId})

\* SELECT COUNT(*) FROM system_agent_tool WHERE "toolId" = %s, plus the same count
\* of common_background_agent_tool
association_count(rows, toolId) ==
    Cardinality({r \in rows : r.scope = "SYSTEM" /\ r.toolId = toolId})
        + Cardinality({r \in rows : r.scope = "COMMON_BACKGROUND" /\ r.toolId = toolId})

\* a DELETE that spares the COMMON_BACKGROUND table
delete_associations_system(rows, scope, toolId) ==
    {r \in rows : ~(r.scope = scope /\ scope = "SYSTEM" /\ r.toolId = toolId)}

\* DELETE FROM {scope's agent_tool_table} WHERE "toolId" = %s
delete_associations(rows, scope, toolId) ==
    {r \in rows : ~(r.scope = scope /\ r.toolId = toolId)}

\* DELETE FROM metadata.system_tool WHERE id = %s
delete_tool_row(rows, toolId) == {r \in rows : r.id # toolId}

\* a join that never matches a COMMON_BACKGROUND row
left_join_system(t, rows, scope) ==
    LET matches == {r \in rows : r.scope = scope /\ scope = "SYSTEM" /\ r.toolId = t.id}
    IN IF matches = {} THEN {None} ELSE {r.toolId : r \in matches}

\* find_orphaned_tools: system_tool LEFT JOIN system_agent_tool LEFT JOIN
\* common_background_agent_tool, WHERE both joined toolId columns are NULL
left_join(t, rows, scope) ==
    LET matches == {r \in rows : r.scope = scope /\ r.toolId = t.id}
    IN IF matches = {} THEN {None} ELSE {r.toolId : r \in matches}

find_orphaned_tools(tools, rows) ==
    LET joined == UNION {{[t |-> t, sat |-> x, cat |-> y] :
                             x \in left_join(t, rows, "SYSTEM"),
                             y \in left_join(t, rows, "COMMON_BACKGROUND")} : t \in tools}
    IN {j.t : j \in {k \in joined : k.sat = None /\ k.cat = None}}

\* delete_tool: the two counts and the test "association_count > 0 and not force"
delete_tool_Count ==
    /\ tm.pc = "dt_count"
    /\ LET n == association_count(assocRows, tm.tool)
       IN tm' = IF n > 0 /\ ~tm.force
                THEN \* raise ValueError("Cannot delete tool ...: it is associated with n agents")
                     [tm EXCEPT !.pc = "raised", !.count = n]
                ELSE [tm EXCEPT !.pc = "dt_system", !.count = n,
                                !.txTools = toolRows, !.txAssoc = assocRows]
    /\ UNCHANGED <<toolRows, assocRows, notToolVars>>

\* DELETE FROM system_agent_tool WHERE "toolId" = %s
delete_tool_System ==
    /\ tm.pc = "dt_system"
    /\ tm' = [tm EXCEPT !.pc = "dt_common",
                        !.txAssoc = delete_associations(@, "SYSTEM", tm.tool)]
    /\ UNCHANGED <<toolRows, assocRows, notToolVars>>

\* DELETE FROM common_background_agent_tool WHERE "toolId" = %s
delete_tool_Common ==
    /\ tm.pc = "dt_common"
    /\ tm' = [tm EXCEPT !.pc = "dt_tool",
                        !.txAssoc = delete_associations(@, "COMMON_BACKGROUND", tm.tool)]
    /\ UNCHANGED <<toolRows, assocRows, notToolVars>>

\* DELETE FROM metadata.system_tool WHERE id = %s; its rowcount is what is returned
delete_tool_Row ==
    /\ tm.pc = "dt_tool"
    /\ tm' = [tm EXCEPT !.pc = "dt_commit",
                        !.txTools = delete_tool_row(@, tm.tool),
                        !.result = IF delete_tool_row(tm.txTools, tm.tool) # tm.txTools
                                   THEN "True" ELSE "False"]
    /\ UNCHANGED <<toolRows, assocRows, notToolVars>>

\* self.conn.commit(); return self.cursor.rowcount > 0, to the command or to
\* the loop of cleanup_orphaned_tools
delete_tool_Commit ==
    /\ tm.pc = "dt_commit"
    /\ toolRows' = tm.txTools
    /\ assocRows' = tm.txAssoc
    /\ tm' = IF tm.op = "cleanup_orphaned_tools"
             THEN \* if self.delete_tool(...): deleted_count += 1
                  [tm EXCEPT !.pc = "cleanup",
                             !.deleted = IF tm.result = "True" THEN @ + 1 ELSE @]
             ELSE [tm EXCEPT !.pc = "done"]
    /\ UNCHANGED notToolVars

\* with ToolManager() as tm: tm.delete_tool(tool_id, force)
ToolManager_delete_tool(toolId, force) ==
    /\ tm.pc = "idle" /\ am.pc = "idle"
    /\ tm' = [TmEnter EXCEPT !.pc = "dt_count", !.op = "delete_tool", !.tool = toolId,
                            !.force = force, !.before = assocRows,
                            !.toolsBefore = toolRows]
    /\ UNCHANGED <<toolRows, assocRows, notToolVars>>

\* with ToolManager() as tm: tm.create_tool(tool_id, tool_name)
ToolManager_create_tool(toolId, toolName) ==
    /\ tm.pc = "idle" /\ am.pc = "idle"
    /\ toolRows' = create_tool(toolRows, toolId, toolName)
    /\ tm' = [TmEnter EXCEPT !.pc = "done", !.op = "create_tool", !.tool = toolId,
                            !.result = toolId]
    /\ UNCHANGED <<assocRows, notToolVars>>

\* with ToolManager() as tm: tm.associate_tool_with_agent(agent_id, tool_id, scope)
ToolManager_associate_tool_with_agent(agent, toolId, scope) ==
    /\ tm.pc = "idle" /\ am.pc = "idle"
    /\ LET w == [TmEnter EXCEPT !.op = "associate_tool_with_agent", !.agent = agent,
                               !.tool = toolId, !.scope = scope, !.before = assocRows]
       IN IF ~get_tool(toolRows, toolId)
          THEN \* raise ValueError("Tool ... not found")
               /\ tm' = [w EXCEPT !.pc = "raised"]
               /\ UNCHANGED assocRows
          ELSE /\ assocRows' = associate_tool_with_agent(assocRows, scope, agent, toolId)
               /\ tm' = [w EXCEPT !.pc = "done", !.result = "True"]
    /\ UNCHANGED <<toolRows, notToolVars>>

\* with ToolManager() as tm: tm.disassociate_tool_from_agent(agent_id, tool_id, scope)
ToolManager_disassociate_tool_from_agent(agent, toolId, scope) ==
    /\ tm.pc = "idle" /\ am.pc = "idle"
    /\ assocRows' = disassociate_tool_from_agent(assocRows, scope, agent, toolId)
    /\ tm' = [TmEnter EXCEPT !.pc = "done", !.op = "disassociate_tool_from_agent",
                            !.agent = agent, !.tool = toolId, !.scope = scope,
                            !.before = assocRows,
                            !.result = IF disassociate_tool_from_agent(
                                              assocRows, scope, agent, toolId) # assocRows
                                       THEN "True" ELSE "False"]
    /\ UNCHANGED <<toolRows, notToolVars>>

\* with ToolManager() as tm: tm.find_orphaned_tools()
ToolManager_find_orphaned_tools ==
    /\ tm.pc = "idle" /\ am.pc = "idle"
    /\ tm' = [TmEnter EXCEPT !.pc = "done", !.op = "find_orphaned_tools",
                            !.orphans = find_orphaned_tools(toolRows, assocRows)]
    /\ UNCHANGED <<toolRows, assocRows, notToolVars>>

\* a cleanup that deletes whether or not force was given
ToolManager_cleanup_orphaned_tools_unforced(force) ==
    /\ tm.pc = "idle" /\ am.pc = "idle"
    /\ LET orphaned == find_orphaned_tools(toolRows, assocRows)
           w == [TmEnter EXCEPT !.op = "cleanup_orphaned_tools", !.force = force,
                               !.orphans = orphaned, !.before = assocRows,
                               !.toolsBefore = toolRows]
       IN tm' = IF orphaned = {}
                THEN [w EXCEPT !.pc = "done"]
                ELSE [w EXCEPT !.pc = "cleanup", !.todo = {t.id : t \in orphaned}]
    /\ UNCHANGED <<toolRows, assocRows, notToolVars>>

\* with ToolManager() as tm: tm.cleanup_orphaned_tools(force), up to the loop
ToolManager_cleanup_orphaned_tools(force) ==
    /\ tm.pc = "idle" /\ am.pc = "idle"
    /\ LET orphaned == find_orphaned_tools(toolRows, assocRows)
           w == [TmEnter EXCEPT !.op = "cleanup_orphaned_tools", !.force = force,
                               !.orphans = orphaned, !.before = assocRows,
                               !.toolsBefore = toolRows]
       IN tm' = IF orphaned = {} \/ ~force
                THEN \* return 0
                     [w EXCEPT !.pc = "done"]
                ELSE [w EXCEPT !.pc = "cleanup", !.todo = {t.id : t \in orphaned}]
    /\ UNCHANGED <<toolRows, assocRows, notToolVars>>

\* one turn of "for tool in orphaned_tools": self.delete_tool(tool['id'], force=True)
cleanup_orphaned_tools_Next ==
    /\ tm.pc = "cleanup"
    /\ \E t \in tm.todo :
         tm' = [tm EXCEPT !.pc = "dt_count", !.tool = t, !.todo = @ \ {t}]
    /\ UNCHANGED <<toolRows, assocRows, notToolVars>>

\* return deleted_count
cleanup_orphaned_tools_Return ==
    /\ tm.pc = "cleanup" /\ tm.todo = {}
    /\ tm' = [tm EXCEPT !.pc = "done"]
    /\ UNCHANGED <<toolRows, assocRows, notToolVars>>

\* ToolManager.__exit__ of a direct call: cursor and connection closed
ToolManager_exit ==
    /\ tm.pc \in {"done", "raised"}
    /\ tm.caller = None
    /\ tm' = TmIdle
    /\ UNCHANGED <<toolRows, assocRows, notToolVars>>

\* a command that opens a ToolManager and calls sync_agent_tools on it
ToolManager_sync_agent_tools(agent, tools, scope) ==
    /\ am.pc = "idle"
    /\ calls = 0
    /\ calls' = calls + 1
    /\ sync_agent_tools_Begin(None, agent, tools, scope)
    /\ UNCHANGED <<agentVars, wfVars, uuids>>

(***************************************************************************)
(* AgentManager                                                            *)
(***************************************************************************)
\* a definition directory: jsonSchema.json's agentId (None: no such key) and
\* its tools list (hasTools: the key is there)
\* and the text of systemPrompt.md and of jsonSchema.json's description
NoDir == [present |-> FALSE, agentId |-> None, hasTools |-> FALSE, tools |-> <<>>,
          prompt |-> <<>>, description |-> ""]

AgentDefs ==
    [present : {TRUE}, agentId : AgentIds \cup {None}, hasTools : {TRUE}, tools : ToolLists,
     prompt : {<<"x">>}, description : {"helper"}]
    \cup [present : {TRUE}, agentId : AgentIds \cup {None}, hasTools : {FALSE},
          tools : {<<>>}, prompt : {<<"x">>}, description : {"helper"}]

\* a definition with the agentId and no tools key
AgentDirOf(id) ==
    [present |-> TRUE, agentId |-> id, hasTools |-> FALSE, tools |-> <<>>,
     prompt |-> <<"x">>, description |-> "helper"]

AmIdle == [pc |-> "idle", op |-> None, scope |-> None, name |-> None,
           agentId |-> None, added |-> 0, removed |-> 0, hadDir |-> FALSE,
           result |-> None,
           todo |-> {}, success |-> {}, errors |-> {},   \* of sync_all_agents
           created |-> None,   \* what create_agent returned to the caller before
           listed |-> <<>>,    \* the rows list_agents returned, as a bag
           conn |-> FALSE, cursor |-> FALSE]   \* self.conn and self.cursor are open

\* AgentManager.__enter__: self.conn = get_db_connection(); self.cursor = get_db_cursor(self.conn)
AmEnter == [AmIdle EXCEPT !.conn = TRUE, !.cursor = TRUE]

NoHist == [valid |-> FALSE, scope |-> None, name |-> None, def |-> NoDir,
           agents |-> {}, tools |-> {}, assoc |-> {}]

\* INSERT INTO {table_name} (id, name, ...) ON CONFLICT (id) DO UPDATE SET name = ...
\*   description = ..., "systemPrompt" = ...
upsert_agent(rows, scope, id, name, description, prompt) ==
    {r \in rows : ~(r.scope = scope /\ r.id = id)}
        \cup {[scope |-> scope, id |-> id, name |-> name,
               description |-> description, prompt |-> prompt]}

\* DELETE FROM {table_name} WHERE name = %s
delete_agent_rows(rows, scope, name) ==
    {r \in rows : ~(r.scope = scope /\ r.name = name)}

\* a row id that is always drawn afresh
schema_agent_id_fresh(def) == uuid4

\* agent_id = schema.get('agentId', str(uuid.uuid4()))
schema_agent_id(def) == IF def.agentId = None THEN uuid4 ELSE def.agentId

\* sync_agent_to_db(name, scope) up to the upsert, called by the command (w:
\* a fresh call) or by the loop of sync_all_agents (w: the call with its lists)
sync_agent_to_db_Read(w, name, scope) ==
    /\ LET def == agentDirs[<<scope, name>>]
       IN IF ~def.present
          THEN \* raise FileNotFoundError
               /\ am' = [w EXCEPT !.pc = "raised", !.scope = scope, !.name = name]
               /\ UNCHANGED <<amTx, uuids>>
          ELSE /\ def.agentId = None => uuids < MaxUuids
               /\ am' = [w EXCEPT !.pc = "commit", !.scope = scope, !.name = name,
                                  !.agentId = schema_agent_id(def)]
               /\ amTx' = upsert_agent(amTx, scope, schema_agent_id(def), name,
                                       def.description, strip(def.prompt))
               /\ uuids' = IF def.agentId = None THEN uuids + 1 ELSE uuids
    /\ UNCHANGED <<agentRows, agentDirs, hist, toolVars, wfVars, calls>>

\* with AgentManager() as am: am.sync_agent_to_db(name, scope)
sync_agent_to_db_Begin(name, scope) ==
    /\ am.pc = "idle" /\ tm.pc = "idle"
    /\ sync_agent_to_db_Read([AmEnter EXCEPT !.op = "sync_agent_to_db"], name, scope)

\* self.conn.commit() after the upsert
sync_agent_to_db_Commit ==
    /\ am.pc = "commit" /\ am.op # "delete_agent"
    /\ agentRows' = amTx
    /\ am' = [am EXCEPT !.pc = IF agentDirs[<<am.scope, am.name>>].hasTools
                               THEN "tools" ELSE "return"]
    /\ UNCHANGED <<amTx, agentDirs, hist, toolVars, wfVars, uuids, calls>>

\* if 'tools' in schema: with ToolManager() as tm: tm.sync_agent_tools(...)
sync_agent_to_db_Tools ==
    /\ am.pc = "tools"
    /\ sync_agent_tools_Begin("am", am.agentId, agentDirs[<<am.scope, am.name>>].tools, am.scope)
    /\ am' = [am EXCEPT !.pc = "wait"]
    /\ UNCHANGED <<agentRows, amTx, agentDirs, hist, wfVars, uuids, calls>>

\* a sync that undoes the association changes of a tool sync that raised
sync_agent_to_db_ToolsEnd_rollback ==
    /\ am.pc = "wait"
    /\ tm.pc \in {"done", "raised"} /\ tm.caller = "am"
    /\ am' = [am EXCEPT !.pc = IF tm.pc = "done" THEN "return" ELSE "raised",
                        !.added = tm.added, !.removed = tm.removed]
    /\ assocRows' = IF tm.pc = "raised" THEN tm.before ELSE assocRows
    /\ tm' = TmIdle
    /\ UNCHANGED <<agentRows, amTx, agentDirs, hist, toolRows, wfVars, uuids, calls>>

\* the with-block of the ToolManager is left: by return or by the exception
sync_agent_to_db_ToolsEnd ==
    /\ am.pc = "wait"
    /\ tm.pc \in {"done", "raised"} /\ tm.caller = "am"
    /\ am' = [am EXCEPT !.pc = IF tm.pc = "done" THEN "return" ELSE "raised",
                        !.added = tm.added, !.removed = tm.removed]
    /\ tm' = TmIdle
    /\ UNCHANGED <<agentRows, amTx, agentDirs, hist, toolRows, assocRows, wfVars, uuids, calls>>

\* return agent_id, to the command or to the loop of sync_all_agents
sync_agent_to_db_Return ==
    /\ am.pc = "return"
    /\ am' = IF am.op = "sync_all_agents"
             THEN [am EXCEPT !.pc = "batch", !.success = @ \cup {<<am.scope, am.name>>}]
             ELSE [am EXCEPT !.pc = "done", !.result = am.agentId]
    /\ UNCHANGED <<agentRows, amTx, agentDirs, hist, toolVars, wfVars, uuids, calls>>

\* a delete that goes on to the local files whatever the rowcount
delete_agent_Begin_always(name, scope) ==
    /\ am.pc = "idle" /\ tm.pc = "idle"
    /\ amTx' = delete_agent_rows(amTx, scope, name)
    /\ am' = [AmEnter EXCEPT !.op = "delete_agent", !.scope = scope, !.name = name,
                            !.hadDir = agentDirs[<<scope, name>>].present,
                            !.pc = "rmtree"]
    /\ UNCHANGED <<agentRows, agentDirs, hist, toolVars, wfVars, uuids, calls>>

\* with AgentManager() as am: am.delete_agent(name, scope), up to the rowcount test
delete_agent_Begin(name, scope) ==
    /\ am.pc = "idle" /\ tm.pc = "idle"
    /\ amTx' = delete_agent_rows(amTx, scope, name)
    /\ am' = [AmEnter EXCEPT !.op = "delete_agent", !.scope = scope, !.name = name,
                            !.hadDir = agentDirs[<<scope, name>>].present,
                            !.pc = IF delete_agent_rows(amTx, scope, name) = amTx
                                   THEN "done" ELSE "rmtree",
                            !.result = IF delete_agent_rows(amTx, scope, name) = amTx
                                       THEN "False" ELSE None]
    /\ UNCHANGED <<agentRows, agentDirs, hist, toolVars, wfVars, uuids, calls>>

\* if os.path.exists(agent_dir): shutil.rmtree(agent_dir)
delete_agent_Rmtree ==
    /\ am.pc = "rmtree"
    /\ agentDirs' = [agentDirs EXCEPT ![<<am.scope, am.name>>] = NoDir]
    /\ am' = [am EXCEPT !.pc = "commit"]
    /\ UNCHANGED <<agentRows, amTx, hist, toolVars, wfVars, uuids, calls>>

\* self.conn.commit(); return True
delete_agent_Commit ==
    /\ am.pc = "commit" /\ am.op = "delete_agent"
    /\ agentRows' = amTx
    /\ am' = [am EXCEPT !.pc = "done", !.result = "True"]
    /\ UNCHANGED <<amTx, agentDirs, hist, toolVars, wfVars, uuids, calls>>

\* files whose jsonSchema.json has no "tools" key
_create_agent_files_no_tools(agent_id, description, system_prompt, name) ==
    [present |-> TRUE, agentId |-> agent_id, hasTools |-> FALSE, tools |-> <<>>,
     prompt |-> prompt_or(system_prompt, default_prompt(name)),
     description |-> description]

\* _create_agent_files: systemPrompt.md and jsonSchema.json, written over what is there
_create_agent_files(agent_id, description, system_prompt, name) ==
    [present |-> TRUE, agentId |-> agent_id, hasTools |-> TRUE, tools |-> <<>>,
     prompt |-> prompt_or(system_prompt, default_prompt(name)),
     description |-> description]

\* INSERT INTO {table_name} (id, name, description, "systemPrompt", ...) of create_agent
insert_agent(rows, scope, id, name, description, prompt) ==
    rows \cup {[scope |-> scope, id |-> id, name |-> name,
                description |-> description, prompt |-> prompt]}

\* with AgentManager() as am: am.create_agent(name, scope, description, system_prompt),
\* up to its commit: the INSERT of a row with a fresh id, then the local files
create_agent_Begin(name, scope, description, system_prompt) ==
    /\ am.pc = "idle" /\ tm.pc = "idle"
    /\ uuids < MaxUuids
    /\ uuids' = uuids + 1
    /\ amTx' = insert_agent(amTx, scope, uuid4, name, description,
                            prompt_or(system_prompt, default_prompt(name)))
    /\ agentDirs' = [agentDirs EXCEPT ![<<scope, name>>] =
                       _create_agent_files(uuid4, description, system_prompt, name)]
    /\ am' = [AmEnter EXCEPT !.pc = "created", !.op = "create_agent", !.scope = scope,
                            !.name = name, !.agentId = uuid4]
    /\ UNCHANGED <<agentRows, hist, toolVars, wfVars, calls>>

\* self.conn.commit(); return agent_id
create_agent_Commit ==
    /\ am.pc = "created"
    /\ agentRows' = amTx
    /\ am' = [am EXCEPT !.pc = "done", !.result = am.agentId]
    /\ UNCHANGED <<amTx, agentDirs, hist, toolVars, wfVars, uuids, calls>>

\* am.sync_agent_to_db(name, scope) on the manager whose create_agent(name,
\* scope, ...) has just returned, as test_agent_operations calls it
sync_agent_to_db_AfterCreate ==
    /\ am.pc = "done" /\ am.op = "create_agent" /\ tm.pc = "idle"
    /\ sync_agent_to_db_Read([AmEnter EXCEPT !.op = "sync_agent_to_db",
                                            !.created = am.result], am.name, am.scope)

\* with AgentManager() as am: am.sync_agent_from_db(name, scope)
\* fetchone() of SELECT * WHERE name = %s: any one of the rows of that name
sync_agent_from_db(name, scope) ==
    /\ am.pc = "idle" /\ tm.pc = "idle"
    /\ LET found == {r \in amTx : r.scope = scope /\ r.name = name}
           w == [AmEnter EXCEPT !.op = "sync_agent_from_db", !.scope = scope, !.name = name]
       IN IF found = {}
          THEN \* raise ValueError("Agent ... not found in database")
               /\ am' = [w EXCEPT !.pc = "raised"]
               /\ UNCHANGED agentDirs
          ELSE \E agent \in found :
               /\ agentDirs' = [agentDirs EXCEPT ![<<scope, name>>] =
                     _create_agent_files(agent.id, description_or_empty(agent.description),
                                         agent.prompt, name)]
               /\ am' = [w EXCEPT !.pc = "done", !.agentId = agent.id, !.result = agent.id]
    /\ UNCHANGED <<agentRows, amTx, hist, toolVars, wfVars, uuids, calls>>

\* with AgentManager() as am: am.sync_all_agents(scope): the directories found
sync_all_agents_Begin(scopes) ==
    /\ am.pc = "idle" /\ tm.pc = "idle"
    /\ am' = [AmEnter EXCEPT !.pc = "batch", !.op = "sync_all_agents",
                            !.todo = {k \in scopes \X Names : agentDirs[k].present}]
    /\ UNCHANGED <<agentRows, amTx, agentDirs, hist, toolVars, wfVars, uuids, calls>>

\* one turn of "for agent_name in os.listdir(definitions_path)": the scopes in
\* the order SYSTEM, COMMON_BACKGROUND, the directories of a scope in any order
sync_all_agents_Next ==
    /\ am.pc = "batch"
    /\ \E k \in am.todo :
         /\ k[1] = "COMMON_BACKGROUND" => \A j \in am.todo : j[1] = "COMMON_BACKGROUND"
         /\ sync_agent_to_db_Read([am EXCEPT !.todo = @ \ {k}, !.added = 0, !.removed = 0],
                                  k[2], k[1])

\* except Exception as e: results["errors"].append(...)
sync_all_agents_Except ==
    /\ am.pc = "raised" /\ am.op = "sync_all_agents"
    /\ am' = [am EXCEPT !.pc = "batch", !.errors = @ \cup {<<am.scope, am.name>>}]
    /\ UNCHANGED <<agentRows, amTx, agentDirs, hist, toolVars, wfVars, uuids, calls>>

\* return results
sync_all_agents_Return ==
    /\ am.pc = "batch" /\ am.todo = {}
    /\ am' = [am EXCEPT !.pc = "done"]
    /\ UNCHANGED <<agentRows, amTx, agentDirs, hist, toolVars, wfVars, uuids, calls>>

\* an exit that closes the connection only when the block returned
AgentManager_exit_leaks ==
    /\ am.pc \in {"done", "raised"}
    /\ am.op = "sync_all_agents" => am.pc = "done"
    /\ amTx' = agentRows
    /\ hist' = IF am.op = "sync_agent_to_db" /\ am.pc = "done"
               THEN [valid |-> TRUE, scope |-> am.scope, name |-> am.name,
                     def |-> agentDirs[<<am.scope, am.name>>],
                     agents |-> agentRows, tools |-> toolRows, assoc |-> assocRows]
               ELSE NoHist
    /\ am' = IF am.pc = "raised" THEN [AmIdle EXCEPT !.conn = TRUE] ELSE AmIdle
    /\ UNCHANGED <<agentRows, agentDirs, toolVars, wfVars, uuids, calls>>

\* AgentManager.__exit__: the connection is closed, what it did not commit is lost
\* (AmIdle: cursor and connection closed)
AgentManager_exit ==
    /\ am.pc \in {"done", "raised"}
    /\ am.op = "sync_all_agents" => am.pc = "done"
    /\ amTx' = agentRows
    /\ hist' = IF am.op = "sync_agent_to_db" /\ am.pc = "done"
               THEN [valid |-> TRUE, scope |-> am.scope, name |-> am.name,
                     def |-> agentDirs[<<am.scope, am.name>>],
                     agents |-> agentRows, tools |-> toolRows, assoc |-> assocRows]
               ELSE NoHist
    /\ am' = AmIdle
    /\ UNCHANGED <<agentRows, agentDirs, toolVars, wfVars, uuids, calls>>

(***************************************************************************)
(* WorkflowManager                                                         *)
(*                                                                         *)
(* _get_table_name ignores its scope argument: every scope's workflows,    *)
(* nodes and edges are rows of system_agent_workflow, _node and _edge, and *)
(* agents are looked up in system_agent.                                   *)
(***************************************************************************)
WfIds == {"w1", "w2"}
NodePool == [w \in WfIds |-> IF w = "w1" THEN <<"w1n1", "w1n2", "w1n3", "w1n4">>
                                         ELSE <<"w2n1", "w2n2", "w2n3", "w2n4">>]
EdgePool == [w \in WfIds |-> IF w = "w1" THEN "w1e1" ELSE "w2e1"]
NodeAgents == {None, "a1", "a9"}     \* a9 is the id of no agent row

\* workflow.json of directory w: the k-th node of the list has the k-th id of
\* the directory's pool, so no two definitions share a node id
NodeLists(w) ==
    UNION {{[k \in 1..n |-> [id |-> NodePool[w][k], agentId |-> f[k]]] :
                f \in [1..n -> NodeAgents]} : n \in 0..MaxNodes}

EdgeLists(w) ==
    {<<>>, <<[id |-> EdgePool[w], src |-> NodePool[w][1], tgt |-> NodePool[w][2]]>>}

NoWf == [present |-> FALSE, id |-> None, entry |-> None, nodes |-> <<>>, edges |-> <<>>]

\* the definitions an operator may put into directory w; the last is a file
\* whose "id" is not the name of its directory
WfDefs(w) ==
    [present : {TRUE}, id : {w}, entry : {None, NodePool[w][1], NodePool[w][2]},
     nodes : NodeLists(w), edges : EdgeLists(w)]
    \cup [present : {TRUE}, id : WfIds \ {w}, entry : {NodePool[w][1]},
          nodes : {<<[id |-> NodePool[w][1], agentId |-> None]>>}, edges : {<<>>}]

WfEmpty == [wf |-> {}, nodes |-> {}, edges |-> {}]

\* the result of validate_workflow: errors and warnings are the messages
\* appended, each with the row it is about (of) and the id it names (ref)
NoReport == [valid |-> FALSE, errors |-> {}, warnings |-> {}]

WmIdle == [pc |-> "idle", op |-> None, scope |-> None, wid |-> None, def |-> NoWf,
           i |-> 0, outcome |-> None, result |-> None, todo |-> {},
           success |-> {}, errors |-> {},
           before |-> WfEmpty,   \* the committed tables when the call began
           failed |-> {},        \* per raised sync of a batch: its committed rows before
           report |-> NoReport,  \* what validate_workflow returned
           listed |-> <<>>,      \* the rows list_workflows returned, as a bag
           conn |-> FALSE, cursor |-> FALSE]   \* self.conn and self.cursor are open

\* WorkflowManager.__enter__: self.conn = get_db_connection(); self.cursor = get_db_cursor(self.conn)
WmEnter == [WmIdle EXCEPT !.conn = TRUE, !.cursor = TRUE]

\* the rows of the three tables that belong to workflow wid
RowsOf(db, wid) ==
    [wf |-> {r \in db.wf : r.id = wid},
     nodes |-> {r \in db.nodes : r.wf = wid},
     edges |-> {r \in db.edges : r.wf = wid}]

\* SELECT id FROM system_agent WHERE id = %s
_validate_agent_exists(agent_id) ==
    /\ agent_id # None
    /\ \E r \in agentRows : r.scope = "SYSTEM" /\ r.id = agent_id

\* INSERT INTO system_agent_workflow (id, ..., entrypoint_node_id, ...) VALUES (.., NULL, ..)
\* ON CONFLICT (id) DO UPDATE SET name, description, is_conversational, updated_at
upsert_workflow(rows, id) ==
    IF \E r \in rows : r.id = id THEN rows
    ELSE rows \cup {[id |-> id, entry |-> None]}

\* UPDATE system_agent_workflow SET entrypoint_node_id = %s WHERE id = %s
set_entrypoint(rows, id, entry) ==
    {IF r.id = id THEN [r EXCEPT !.entry = entry] ELSE r : r \in rows}

\* a DELETE that matches no row
delete_of_workflow_none(rows, wid) == rows

\* DELETE FROM {table} WHERE workflow_id = %s
delete_of_workflow(rows, wid) == {r \in rows : r.wf # wid}

\* a DELETE that matches no row
delete_workflow_row_none(rows, id) == rows

\* DELETE FROM system_agent_workflow WHERE id = %s
delete_workflow_row(rows, id) == {r \in rows : r.id # id}

\* a sync that sends its first statement before it looks for the directory
sync_workflow_to_db_Begin_late(wid, scope) ==
    /\ wm.pc = "idle"
    /\ LET def == wfDirs[<<scope, wid>>]
           w == [WmEnter EXCEPT !.before = wfDb]
       IN wm' = IF ~def.present
                THEN [w EXCEPT !.pc = "raised", !.op = "sync_workflow_to_db",
                               !.scope = scope, !.wid = wid, !.outcome = "notfound"]
                ELSE [w EXCEPT !.pc = "upsert", !.op = "sync_workflow_to_db",
                               !.scope = scope, !.wid = wid, !.def = def, !.i = 1]
    /\ wfTx' = [wfTx EXCEPT !.wf = upsert_workflow(@, wid)]
    /\ edited' = FALSE
    /\ UNCHANGED <<wfDb, wfDirs, agentVars, toolVars, uuids, calls>>

\* with WorkflowManager() as wm: wm.sync_workflow_to_db(workflow_id, scope)
sync_workflow_to_db_Begin(wid, scope) ==
    /\ wm.pc = "idle"
    /\ LET def == wfDirs[<<scope, wid>>]
           w == [WmEnter EXCEPT !.before = wfDb]
       IN wm' = IF ~def.present
                THEN \* raise FileNotFoundError
                     [w EXCEPT !.pc = "raised", !.op = "sync_workflow_to_db",
                               !.scope = scope, !.wid = wid, !.outcome = "notfound"]
                ELSE [w EXCEPT !.pc = "upsert", !.op = "sync_workflow_to_db",
                               !.scope = scope, !.wid = wid, !.def = def, !.i = 1]
    /\ edited' = FALSE
    /\ UNCHANGED <<wfDb, wfTx, wfDirs, agentVars, toolVars, uuids, calls>>

\* Step 1: the workflow row, inserted with entrypoint_node_id NULL or updated
sync_workflow_to_db_Upsert ==
    /\ wm.pc = "upsert"
    /\ wfTx' = [wfTx EXCEPT !.wf = upsert_workflow(@, wm.def.id)]
    /\ wm' = [wm EXCEPT !.pc = "delnodes"]
    /\ UNCHANGED <<wfDb, wfDirs, agentVars, toolVars, edited, uuids, calls>>

\* _sync_workflow_nodes: DELETE FROM system_agent_workflow_node WHERE workflow_id = %s
_sync_workflow_nodes_Delete ==
    /\ wm.pc = "delnodes"
    /\ wfTx' = [wfTx EXCEPT !.nodes = delete_of_workflow(@, wm.wid)]
    /\ wm' = [wm EXCEPT !.pc = "nodes", !.i = 1]
    /\ UNCHANGED <<wfDb, wfDirs, agentVars, toolVars, edited, uuids, calls>>

\* _sync_workflow_nodes: one turn of "for node in nodes"
_sync_workflow_nodes_Insert ==
    /\ wm.pc = "nodes"
    /\ wm.i <= Len(wm.def.nodes)
    /\ LET node == wm.def.nodes[wm.i]
       IN IF node.agentId # None /\ ~_validate_agent_exists(node.agentId)
          THEN \* raise ValueError("Agent ... does not exist in any scope")
               /\ wm' = [wm EXCEPT !.pc = "raised", !.outcome = "dangling"]
               /\ UNCHANGED wfTx
          ELSE /\ wfTx' = [wfTx EXCEPT !.nodes = @ \cup
                             {[id |-> node.id, wf |-> wm.wid, agentId |-> node.agentId]}]
               /\ wm' = [wm EXCEPT !.i = @ + 1]
    /\ UNCHANGED <<wfDb, wfDirs, agentVars, toolVars, edited, uuids, calls>>

\* _sync_workflow_edges: DELETE FROM system_agent_workflow_edge WHERE workflow_id = %s
_sync_workflow_edges_Delete ==
    /\ wm.pc = "nodes"
    /\ wm.i > Len(wm.def.nodes)
    /\ wfTx' = [wfTx EXCEPT !.edges = delete_of_workflow(@, wm.wid)]
    /\ wm' = [wm EXCEPT !.pc = "edges", !.i = 1]
    /\ UNCHANGED <<wfDb, wfDirs, agentVars, toolVars, edited, uuids, calls>>

\* _sync_workflow_edges: one turn of "for edge in edges"
_sync_workflow_edges_Insert ==
    /\ wm.pc = "edges"
    /\ wm.i <= Len(wm.def.edges)
    /\ LET edge == wm.def.edges[wm.i]
       IN wfTx' = [wfTx EXCEPT !.edges = @ \cup
                     {[id |-> edge.id, wf |-> wm.wid, src |-> edge.src, tgt |-> edge.tgt]}]
    /\ wm' = [wm EXCEPT !.i = @ + 1]
    /\ UNCHANGED <<wfDb, wfDirs, agentVars, toolVars, edited, uuids, calls>>

\* Step 4: if entrypoint_node_id: UPDATE ... SET entrypoint_node_id = %s WHERE id = %s
sync_workflow_to_db_Entrypoint ==
    /\ wm.pc = "edges"
    /\ wm.i > Len(wm.def.edges)
    /\ wfTx' = IF wm.def.entry # None
               THEN [wfTx EXCEPT !.wf = set_entrypoint(@, wm.wid, wm.def.entry)]
               ELSE wfTx
    /\ wm' = [wm EXCEPT !.pc = "commit"]
    /\ UNCHANGED <<wfDb, wfDirs, agentVars, toolVars, edited, uuids, calls>>

\* self.conn.commit()
sync_workflow_to_db_Commit ==
    /\ wm.pc = "commit" /\ wm.op # "delete_workflow"
    /\ wfDb' = wfTx
    /\ wm' = [wm EXCEPT !.pc = "ret"]
    /\ UNCHANGED <<wfTx, wfDirs, agentVars, toolVars, edited, uuids, calls>>

\* return workflow_id, to the command or to the loop of sync_all_workflows
sync_workflow_to_db_Return ==
    /\ wm.pc = "ret"
    /\ wm' = IF wm.op = "sync_all_workflows"
             THEN [wm EXCEPT !.pc = "batch", !.success = @ \cup {<<wm.scope, wm.wid>>}]
             ELSE [wm EXCEPT !.pc = "done", !.outcome = "ok", !.result = wm.wid]
    /\ UNCHANGED <<wfDb, wfTx, wfDirs, agentVars, toolVars, edited, uuids, calls>>

\* create_workflow: the directory and workflow.json with one ROUTER node "Start"
create_workflow_Begin(wid, scope) ==
    /\ wm.pc = "idle" /\ ~edited
    /\ uuids < MaxUuids
    /\ uuids' = uuids + 1
    /\ LET def == [present |-> TRUE, id |-> wid, entry |-> uuid4,
                   nodes |-> <<[id |-> uuid4, agentId |-> None]>>, edges |-> <<>>]
       IN /\ wfDirs' = [wfDirs EXCEPT ![<<scope, wid>>] = def]
          /\ wm' = [WmEnter EXCEPT !.pc = "upsert", !.op = "create_workflow",
                                  !.scope = scope, !.wid = wid, !.def = def, !.i = 1,
                                  !.before = wfDb]
    /\ UNCHANGED <<wfDb, wfTx, agentVars, toolVars, edited, calls>>

\* with WorkflowManager() as wm: wm.delete_workflow(workflow_id, scope), to the rowcount test
delete_workflow_Begin(wid, scope) ==
    /\ wm.pc = "idle" /\ ~edited
    /\ wfTx' = [wfTx EXCEPT !.wf = delete_workflow_row(@, wid)]
    /\ wm' = [WmEnter EXCEPT !.op = "delete_workflow", !.scope = scope, !.wid = wid,
                            !.before = wfDb,
                            !.pc = IF delete_workflow_row(wfTx.wf, wid) = wfTx.wf
                                   THEN "done" ELSE "rmtree",
                            !.outcome = "ok",
                            !.result = IF delete_workflow_row(wfTx.wf, wid) = wfTx.wf
                                       THEN "False" ELSE None]
    /\ UNCHANGED <<wfDb, wfDirs, agentVars, toolVars, edited, uuids, calls>>

\* if os.path.exists(workflow_dir): shutil.rmtree(workflow_dir)
delete_workflow_Rmtree ==
    /\ wm.pc = "rmtree"
    /\ wfDirs' = [wfDirs EXCEPT ![<<wm.scope, wm.wid>>] = NoWf]
    /\ wm' = [wm EXCEPT !.pc = "commit"]
    /\ UNCHANGED <<wfDb, wfTx, agentVars, toolVars, edited, uuids, calls>>

\* self.conn.commit(); return True
delete_workflow_Commit ==
    /\ wm.pc = "commit" /\ wm.op = "delete_workflow"
    /\ wfDb' = wfTx
    /\ wm' = [wm EXCEPT !.pc = "done", !.result = "True"]
    /\ UNCHANGED <<wfTx, wfDirs, agentVars, toolVars, edited, uuids, calls>>

\* with WorkflowManager() as wm: wm.sync_all_workflows(scope): the directories found
sync_all_workflows_Begin(scopes) ==
    /\ wm.pc = "idle" /\ ~edited
    /\ wm' = [WmEnter EXCEPT !.pc = "batch", !.op = "sync_all_workflows",
                            !.before = wfDb,
                            !.todo = {k \in scopes \X WfIds : wfDirs[k].present}]
    /\ UNCHANGED <<wfDb, wfTx, wfDirs, agentVars, toolVars, edited, uuids, calls>>

\* one turn of "for workflow_id in os.listdir(definitions_path)": the scopes in
\* the order SYSTEM, COMMON_BACKGROUND, the directories of a scope in any order
sync_all_workflows_Next ==
    /\ wm.pc = "batch"
    /\ \E k \in wm.todo :
         /\ k[1] = "COMMON_BACKGROUND" => \A j \in wm.todo : j[1] = "COMMON_BACKGROUND"
         /\ wm' = [wm EXCEPT !.pc = "upsert", !.scope = k[1], !.wid = k[2],
                             !.def = wfDirs[k], !.i = 1, !.todo = @ \ {k}]
    /\ UNCHANGED <<wfDb, wfTx, wfDirs, agentVars, toolVars, edited, uuids, calls>>

\* a handler that records the error and ends the loop
sync_all_workflows_Except_stops ==
    /\ wm.pc = "raised" /\ wm.op = "sync_all_workflows"
    /\ wm' = [wm EXCEPT !.pc = "done", !.outcome = "ok",
                        !.errors = @ \cup {<<wm.scope, wm.wid>>}]
    /\ UNCHANGED <<wfDb, wfTx, wfDirs, agentVars, toolVars, edited, uuids, calls>>

\* except Exception as e: results["errors"].append(...)
sync_all_workflows_Except ==
    /\ wm.pc = "raised" /\ wm.op = "sync_all_workflows"
    /\ wm' = [wm EXCEPT !.pc = "batch", !.errors = @ \cup {<<wm.scope, wm.wid>>},
                        !.failed = @ \cup {[wid |-> wm.wid, rows |-> RowsOf(wfDb, wm.wid)]}]
    /\ UNCHANGED <<wfDb, wfTx, wfDirs, agentVars, toolVars, edited, uuids, calls>>

\* return results
sync_all_workflows_Return ==
    /\ wm.pc = "batch" /\ wm.todo = {}
    /\ wm' = [wm EXCEPT !.pc = "done", !.outcome = "ok"]
    /\ UNCHANGED <<wfDb, wfTx, wfDirs, agentVars, toolVars, edited, uuids, calls>>

\* an exit that commits what is pending
WorkflowManager_exit_commits ==
    /\ wm.pc \in {"done", "raised"}
    /\ wm.op = "sync_all_workflows" => wm.pc = "done"
    /\ wfDb' = wfTx
    /\ wm' = WmIdle
    /\ UNCHANGED <<wfTx, wfDirs, agentVars, toolVars, edited, uuids, calls>>

\* WorkflowManager.__exit__: the connection is closed, what it did not commit is lost
WorkflowManager_exit ==
    /\ wm.pc \in {"done", "raised"}
    /\ wm.op = "sync_all_workflows" => wm.pc = "done"
    /\ wfTx' = wfDb
    /\ wm' = WmIdle
    /\ UNCHANGED <<wfDb, wfDirs, agentVars, toolVars, edited, uuids, calls>>

\* with WorkflowManager() as wm: wm.add_node_to_workflow(workflow_id, node_name, scope, agent_id)
\* Its INSERT names the columns "workflowId", "agentId", "nodeType", "nodeName",
\* not the workflow_id, agent_id, ... of _sync_workflow_nodes: the table has
\* them and the row is inserted, or the server rejects the statement.
add_node_to_workflow(wid, scope, agent_id) ==
    /\ wm.pc = "idle" /\ ~edited
    /\ LET w == [WmEnter EXCEPT !.op = "add_node_to_workflow", !.scope = scope,
                               !.wid = wid, !.before = wfDb]
       IN IF agent_id # None /\ ~_validate_agent_exists(agent_id)
          THEN \* raise ValueError("Agent ... does not exist in any scope")
               /\ wm' = [w EXCEPT !.pc = "raised", !.outcome = "dangling"]
               /\ UNCHANGED <<wfDb, wfTx, uuids>>
          ELSE /\ uuids < MaxUuids
               /\ uuids' = uuids + 1
               /\ \E accepted \in BOOLEAN :
                    IF accepted
                    THEN \* the INSERT and self.conn.commit(); return node_id
                         /\ wfDb' = [wfTx EXCEPT !.nodes = @ \cup
                                       {[id |-> uuid4, wf |-> wid, agentId |-> agent_id]}]
                         /\ wfTx' = wfDb'
                         /\ wm' = [w EXCEPT !.pc = "done", !.outcome = "ok",
                                            !.result = uuid4]
                    ELSE /\ wm' = [w EXCEPT !.pc = "raised", !.outcome = "rejected"]
                         /\ UNCHANGED <<wfDb, wfTx>>
    /\ UNCHANGED <<wfDirs, agentVars, toolVars, edited, calls>>

\* The columns the INSERT statements of _sync_workflow_nodes and
\* _sync_workflow_edges name, and the value a row holds in each.
NodeColumns == {"id", "workflow_id", "agent_id", "node_type", "node_name"}
EdgeColumns == {"id", "workflow_id", "source_node_id", "target_node_id",
                "condition_type", "condition_value"}

NodeColumn(row, key) ==
    CASE key = "id" -> row.id
      [] key = "workflow_id" -> row.wf
      [] key = "agent_id" -> row.agentId
      [] OTHER -> None        \* node_type, node_name: not kept by the model

EdgeColumn(row, key) ==
    CASE key = "id" -> row.id
      [] key = "workflow_id" -> row.wf
      [] key = "source_node_id" -> row.src
      [] key = "target_node_id" -> row.tgt
      [] OTHER -> None        \* condition_type, condition_value: not kept

\* node.get(key) and edge.get(key) on a RealDictRow of SELECT *: the value of
\* the column of that name.  A key that is no column of the INSERT is absent
\* from the row, or names a column the INSERT left NULL: None either way.
node_get(row, key) == IF key \in NodeColumns THEN NodeColumn(row, key) ELSE None
edge_get(row, key) == IF key \in EdgeColumns THEN EdgeColumn(row, key) ELSE None

\* edge[key] raises KeyError for a key absent from the row: one that is no
\* column of the INSERT, unless the table has a column of that name as well
\* (camel)
edge_item_raises(key, camel) == key \notin EdgeColumns /\ ~camel

\* an entrypoint test that only asks whether the id is set
entrypoint_errors_unset(workflow, nodes) ==
    IF workflow.entry = None
    THEN {[kind |-> "entrypoint", of |-> workflow.id, ref |-> workflow.entry]}
    ELSE {}

\* if not entrypoint_node_id or not any(node['id'] == entrypoint_node_id for node in nodes)
entrypoint_errors(workflow, nodes) ==
    IF workflow.entry = None \/ ~\E node \in nodes : node.id = workflow.entry
    THEN {[kind |-> "entrypoint", of |-> workflow.id, ref |-> workflow.entry]}
    ELSE {}

\* for node in nodes: agent_id = node.get('agentId');
\*   if agent_id and not self._validate_agent_exists(agent_id): errors.append(...)
agent_errors(nodes) ==
    {[kind |-> "agent", of |-> node.id, ref |-> node_get(node, "agentId")] :
        node \in {n \in nodes : /\ node_get(n, "agentId") # None
                                 /\ ~_validate_agent_exists(node_get(n, "agentId"))}}

\* for edge in edges: the source and the target tests
edge_errors(edges, node_ids) ==
    {[kind |-> "source", of |-> edge.id, ref |-> edge_get(edge, "sourceNodeId")] :
        edge \in {e \in edges : edge_get(e, "sourceNodeId") \notin node_ids}}
    \cup
    {[kind |-> "target", of |-> edge.id, ref |-> edge_get(edge, "targetNodeId")] :
        edge \in {e \in edges : /\ edge_get(e, "targetNodeId") # None
                                 /\ edge_get(e, "targetNodeId") \notin node_ids}}

\* connected_nodes = {edge['sourceNodeId'] for edge in edges}, and every
\* edge.get('targetNodeId') that is set
connected_nodes(edges) ==
    {edge_get(e, "sourceNodeId") : e \in edges}
    \cup ({edge_get(e, "targetNodeId") : e \in edges} \ {None})

\* orphaned_nodes = node_ids - connected_nodes - {entrypoint_node_id}
orphaned_nodes(node_ids, edges, entrypoint_node_id) ==
    (node_ids \ connected_nodes(edges)) \ {entrypoint_node_id}

\* if orphaned_nodes: warnings.append("Orphaned nodes found ...: " + the ids)
orphan_warnings(orphaned) ==
    IF orphaned # {} THEN {[kind |-> "orphaned", ids |-> orphaned]} ELSE {}

\* with WorkflowManager() as wm: wm.validate_workflow(workflow_id, scope)
\* The three SELECTs read what the manager's fresh connection sees.
validate_workflow(wid, scope) ==
    /\ wm.pc = "idle" /\ ~edited
    /\ \E camel \in BOOLEAN :
         LET w == [WmEnter EXCEPT !.op = "validate_workflow", !.scope = scope,
                                 !.wid = wid, !.before = wfDb]
             found == {r \in wfTx.wf : r.id = wid}
             workflow == CHOOSE r \in found : TRUE
             nodes == {r \in wfTx.nodes : NodeColumn(r, "workflow_id") = wid}
             edges == {r \in wfTx.edges : EdgeColumn(r, "workflow_id") = wid}
             node_ids == {node.id : node \in nodes}
             errors == entrypoint_errors(workflow, nodes) \cup agent_errors(nodes)
                         \cup edge_errors(edges, node_ids)
             warnings == orphan_warnings(orphaned_nodes(node_ids, edges,
                                                        workflow.entry))
         IN wm' = IF found = {}
                  THEN \* return {"valid": False, "errors": ["Workflow ... does not exist"]}
                       [w EXCEPT !.pc = "done", !.outcome = "ok",
                                 !.report = [valid |-> FALSE, warnings |-> {},
                                             errors |-> {[kind |-> "workflow", of |-> wid,
                                                          ref |-> None]}]]
                  ELSE IF edges # {} /\ edge_item_raises("sourceNodeId", camel)
                  THEN \* edge['sourceNodeId'] raises KeyError
                       [w EXCEPT !.pc = "raised", !.outcome = "KeyError"]
                  ELSE [w EXCEPT !.pc = "done", !.outcome = "ok",
                                 !.report = [valid |-> errors = {}, errors |-> errors,
                                             warnings |-> warnings]]
    /\ UNCHANGED <<wfDb, wfTx, wfDirs, agentVars, toolVars, edited, uuids, calls>>

\* the operator rewrites definitions/<scope>/AgenticWorkflows/<id>/workflow.json
edit_workflow_json(wid, scope, def) ==
    /\ wm.pc = "idle" /\ ~edited
    /\ wfDirs[<<scope, wid>>] # def
    /\ wfDirs' = [wfDirs EXCEPT ![<<scope, wid>>] = def]
    /\ edited' = TRUE
    /\ UNCHANGED <<wfDb, wfTx, wm, agentVars, toolVars, uuids, calls>>

(***************************************************************************)
(* The command line: what the process of a command ends with, given how    *)
(* the manager call inside its with-block ended                            *)
(***************************************************************************)
\* delete_tool_command: try: tm.delete_tool(...) except ValueError as e: print(...)
\* TRUE when an exception leaves the command function
delete_tool_command(raised, exception) == raised /\ exception # "ValueError"

\* the command functions that catch nothing, and those that hand what they
\* catch to handle_error, which ends in sys.exit(1)
command(raised) == raised

\* main: try: args.func(args) except Exception as e: error_handler.handle_error(e, ...)
\* handle_error ends in sys.exit(1); a function that returns ends the process with 0
main(propagated) == IF propagated THEN 1 ELSE 0

(***************************************************************************)
(* Specifications                                                          *)
(***************************************************************************)

OtherScope(s) == IF s = "SYSTEM" THEN "COMMON_BACKGROUND" ELSE "SYSTEM"

\* rows an earlier run left: the tools of the associations exist, under the
\* names an older definition gave them
\* an agent row an earlier sync left
AgentRow(scope, id, name) ==
    [scope |-> scope, id |-> id, name |-> name, description |-> "helper", prompt |-> <<"x">>]
ToolRowsFor(ids) == {[id |-> t, name |-> "old"] : t \in ids}
AssocRowsFor(scope, agent, ids) ==
    {[scope |-> scope, agentId |-> agent, toolId |-> t] : t \in ids}

InitIdle ==
    /\ am = AmIdle /\ tm = TmIdle /\ hist = NoHist
    /\ wfDb = WfEmpty /\ wfTx = WfEmpty /\ wm = WmIdle
    /\ edited = FALSE /\ uuids = 0 /\ calls = 0

\* ToolManager.sync_agent_tools called once, on a database in which agent a1
\* has the associations C in scope s, and other rows stand beside them
InitTools ==
    /\ InitIdle
    /\ agentRows = {} /\ amTx = {}
    /\ \E s \in Scopes, C \in SUBSET ToolIds, others \in BOOLEAN :
         LET beside == IF others
                       THEN AssocRowsFor(s, "a2", {"t1"})
                                \cup AssocRowsFor(OtherScope(s), "a1", {"t2"})
                       ELSE {}
         IN /\ assocRows = AssocRowsFor(s, "a1", C) \cup beside
            /\ toolRows = ToolRowsFor({r.toolId : r \in assocRows})
    /\ agentDirs = [k \in Scopes \X Names |-> NoDir]
    /\ wfDirs = [k \in Scopes \X WfIds |-> NoWf]

NextTools ==
    \/ \E l \in ToolLists, s \in Scopes : ToolManager_sync_agent_tools("a1", l, s)
    \/ sync_agent_tools_Upsert
    \/ sync_agent_tools_Diff
    \/ sync_agent_tools_Remove
    \/ sync_agent_tools_AddBegin
    \/ sync_agent_tools_Add
    \/ sync_agent_tools_Return
    \/ ToolManager_exit

SpecTools == InitTools /\ [][NextTools]_vars

\* the same call on a database that may reject a DELETE of an association
NextToolsFault ==
    \/ NextTools
    \/ sync_agent_tools_RemoveFails

SpecToolsFault == InitTools /\ [][NextToolsFault]_vars

\* the name a command gives a tool
ToolName(t) == IF t = "t1" THEN "search" ELSE "fetch"

\* ToolManager commands on the tools t1 and t2, from an empty database
InitToolOps ==
    /\ InitIdle
    /\ agentRows = {} /\ amTx = {}
    /\ toolRows = {} /\ assocRows = {}
    /\ agentDirs = [k \in Scopes \X Names |-> NoDir]
    /\ wfDirs = [k \in Scopes \X WfIds |-> NoWf]

NextToolOps ==
    \/ \E t \in {"t1", "t2"} : ToolManager_create_tool(t, ToolName(t))
    \/ \E a \in AgentIds, t \in {"t1", "t2"}, sc \in Scopes :
           ToolManager_associate_tool_with_agent(a, t, sc)
    \/ \E a \in AgentIds, t \in {"t1", "t2"}, sc \in Scopes :
           ToolManager_disassociate_tool_from_agent(a, t, sc)
    \/ \E t \in {"t1", "t2"}, force \in BOOLEAN : ToolManager_delete_tool(t, force)
    \/ delete_tool_Count
    \/ delete_tool_System
    \/ delete_tool_Common
    \/ delete_tool_Row
    \/ delete_tool_Commit
    \/ ToolManager_find_orphaned_tools
    \/ \E force \in BOOLEAN : ToolManager_cleanup_orphaned_tools(force)
    \/ cleanup_orphaned_tools_Next
    \/ cleanup_orphaned_tools_Return
    \/ ToolManager_exit

SpecToolOps == InitToolOps /\ [][NextToolOps]_vars

\* AgentManager commands on one local agent definition; with "prior" the
\* agent a1 was synced before from an older definition that declared t1 and t3
InitAgents ==
    /\ InitIdle
    /\ \E s \in Scopes, d \in AgentDefs, prior \in BOOLEAN :
         /\ agentDirs = [k \in Scopes \X Names |-> IF k = <<s, "alice">> THEN d ELSE NoDir]
         /\ agentRows = IF prior THEN {AgentRow(s, "a1", "alice")} ELSE {}
         /\ assocRows = IF prior THEN AssocRowsFor(s, "a1", {"t1", "t3"}) ELSE {}
         /\ toolRows = IF prior THEN ToolRowsFor({"t1", "t3"}) ELSE {}
    /\ amTx = agentRows
    /\ wfDirs = [k \in Scopes \X WfIds |-> NoWf]

NextAgents ==
    \/ \E n \in Names, s \in Scopes : sync_agent_to_db_Begin(n, s)
    \/ sync_agent_to_db_Commit
    \/ sync_agent_to_db_Tools
    \/ sync_agent_to_db_ToolsEnd
    \/ sync_agent_to_db_Return
    \/ \E n \in Names, s \in Scopes : delete_agent_Begin(n, s)
    \/ delete_agent_Rmtree
    \/ delete_agent_Commit
    \/ AgentManager_exit
    \/ sync_agent_tools_Upsert
    \/ sync_agent_tools_Diff
    \/ sync_agent_tools_Remove
    \/ sync_agent_tools_AddBegin
    \/ sync_agent_tools_Add
    \/ sync_agent_tools_Return

SpecAgents == InitAgents /\ [][NextAgents]_vars

\* the definitions of the round trips: any prompt text and description, no tools key
TextDefs ==
    [present : {TRUE}, agentId : {"a1", None}, hasTools : {FALSE}, tools : {<<>>},
     prompt : Prompts, description : Descriptions]

\* sync_agent_to_db and sync_agent_from_db on one local definition of alice
InitAgentsText ==
    /\ InitIdle
    /\ \E s \in Scopes, d \in TextDefs :
         agentDirs = [k \in Scopes \X Names |-> IF k = <<s, "alice">> THEN d ELSE NoDir]
    /\ agentRows = {} /\ amTx = {}
    /\ assocRows = {} /\ toolRows = {}
    /\ wfDirs = [k \in Scopes \X WfIds |-> NoWf]

NextAgentsText ==
    \/ \E s \in Scopes : sync_agent_to_db_Begin("alice", s)
    \/ sync_agent_to_db_Commit
    \/ sync_agent_to_db_Tools
    \/ sync_agent_to_db_ToolsEnd
    \/ sync_agent_to_db_Return
    \/ \E s \in Scopes : sync_agent_from_db("alice", s)
    \/ AgentManager_exit
    \/ sync_agent_tools_Diff
    \/ sync_agent_tools_AddBegin
    \/ sync_agent_tools_Return

SpecAgentsText == InitAgentsText /\ [][NextAgentsText]_vars

\* create_agent and sync_agent_to_db in scope SYSTEM: alice has a local
\* definition, with the agentId a1 or with none, and a row with the id a1 may
\* stand in either scope
InitAgentsCreate ==
    /\ InitIdle
    /\ \E id \in {"a1", None}, prior \in SUBSET Scopes :
         /\ agentDirs = [k \in Scopes \X Names |->
                           IF k = <<"SYSTEM", "alice">> THEN AgentDirOf(id) ELSE NoDir]
         /\ agentRows = {AgentRow(s, "a1", "old") : s \in prior}
    /\ amTx = agentRows
    /\ assocRows = {} /\ toolRows = {}
    /\ wfDirs = [k \in Scopes \X WfIds |-> NoWf]

NextAgentsCreate ==
    \/ \E n \in Names, p \in {<<>>, <<"x", " ">>} : create_agent_Begin(n, "SYSTEM", "", p)
    \/ create_agent_Commit
    \/ sync_agent_to_db_AfterCreate
    \/ \E n \in Names : sync_agent_to_db_Begin(n, "SYSTEM")
    \/ sync_agent_to_db_Commit
    \/ sync_agent_to_db_Tools
    \/ sync_agent_to_db_ToolsEnd
    \/ sync_agent_to_db_Return
    \/ AgentManager_exit
    \/ sync_agent_tools_Diff
    \/ sync_agent_tools_AddBegin
    \/ sync_agent_tools_Return

SpecAgentsCreate == InitAgentsCreate /\ [][NextAgentsCreate]_vars

(***************************************************************************)
(* Claims about ToolManager.sync_agent_tools                               *)
(***************************************************************************)
\* the tool ids an agent is associated with in a scope's association table
AssocSetOf(rows, scope, agent) ==
    {t \in ToolIds : [scope |-> scope, agentId |-> agent, toolId |-> t] \in rows}

\* every entry of the declared list has a tool id and upserts
AllUpsertOk(l) == \A k \in 1..Len(l) : l[k].toolId # None /\ l[k].res = "ok"

\* the tool ids of the entries of a declared list that upsert when tried alone
OkIds(l) == {l[k].toolId : k \in {j \in 1..Len(l) : l[j].toolId # None /\ l[j].res = "ok"}}

\* the tool ids of the entries whose upsert fails, and that no other entry upserts
FailedIds(l) ==
    {l[k].toolId : k \in {j \in 1..Len(l) : l[j].toolId # None /\ l[j].res # "ok"}} \ OkIds(l)

\* C1: when every declared entry upserts, sync_agent_tools returns with the
\* agent's associations in its scope equal to the declared set D, and reports
\* removed = |C - D| and added = |D - C|, C being the associations before.
C1_ToolDiff ==
    (tm.pc = "done" /\ AllUpsertOk(tm.tools)) =>
        LET C == AssocSetOf(tm.before, tm.scope, tm.agent)
            D == OkIds(tm.tools)
        IN /\ AssocSetOf(assocRows, tm.scope, tm.agent) = D
           /\ tm.removed = Cardinality(C \ D)
           /\ tm.added = Cardinality(D \ C)

C1_Witness ==
    /\ tm.pc = "done" /\ AllUpsertOk(tm.tools)
    /\ LET C == AssocSetOf(tm.before, tm.scope, tm.agent)
           D == OkIds(tm.tools)
       IN C \ D # {} /\ D \ C # {} /\ C \cap D # {}

\* C4: a declared tool whose upsert fails is skipped: sync_agent_tools still
\* returns, counts the tool in neither added nor removed, leaves an association
\* the agent had with it in place, and processes the other declared tools.
C4_FailedUpsertSkipped ==
    (tm.pc \in {"done", "raised"} /\ FailedIds(tm.tools) # {}) =>
        LET C == AssocSetOf(tm.before, tm.scope, tm.agent)
            D == OkIds(tm.tools)
            F == FailedIds(tm.tools)
        IN /\ tm.pc = "done"
           /\ AssocSetOf(assocRows, tm.scope, tm.agent) = D \cup (C \cap F)
           /\ tm.removed = Cardinality((C \ D) \ F)
           /\ tm.added = Cardinality(D \ C)

(***************************************************************************)
(* Claims about delete_tool and find_orphaned_tools                        *)
(***************************************************************************)
\* the association rows that reference a tool, in either scope's table
AssocOfTool(rows, toolId) == {r \in rows : r.toolId = toolId}

\* C12: delete_tool without force on a tool that has n > 0 associations, both
\* scopes' tables counted together, raises an error that carries n and leaves
\* every tool row and every association row as it was.
C12_DeleteToolRefused ==
    (/\ tm.op = "delete_tool" /\ ~tm.force /\ tm.pc # "dt_count"
     /\ AssocOfTool(tm.before, tm.tool) # {}) =>
        /\ tm.pc = "raised"
        /\ tm.count = Cardinality(AssocOfTool(tm.before, tm.tool))
        /\ toolRows = tm.toolsBefore
        /\ assocRows = tm.before

C12_Witness ==
    /\ tm.op = "delete_tool" /\ ~tm.force /\ tm.pc = "raised"
    /\ tm.count = 2
    /\ \A sc \in Scopes : \E r \in assocRows : r.scope = sc /\ r.toolId = tm.tool

\* C13: delete_tool with force on an existing tool returns true whatever the
\* number of associations; when it comes to delete the tool row no association
\* to the tool is left in either scope; afterwards the tool row and every
\* association to it are gone and all other rows are as they were.
C13_ForcedDelete ==
    (tm.op = "delete_tool" /\ tm.force /\ get_tool(tm.toolsBefore, tm.tool)) =>
        /\ tm.pc # "raised"
        /\ tm.pc \in {"dt_tool", "dt_commit"} =>
               AssocOfTool(tm.txAssoc, tm.tool) = {}
        /\ tm.pc \in {"dt_system", "dt_common", "dt_tool"} =>
               get_tool(tm.txTools, tm.tool)
        /\ tm.pc = "done" =>
               /\ tm.result = "True"
               /\ ~get_tool(toolRows, tm.tool)
               /\ AssocOfTool(assocRows, tm.tool) = {}
               /\ assocRows = tm.before \ AssocOfTool(tm.before, tm.tool)
               /\ toolRows = {r \in tm.toolsBefore : r.id # tm.tool}

C13_Witness ==
    /\ tm.op = "delete_tool" /\ tm.force /\ tm.pc = "done" /\ tm.result = "True"
    /\ \A sc \in Scopes : \E r \in tm.before : r.scope = sc /\ r.toolId = tm.tool
    /\ assocRows # {}

\* C14: in every state find_orphaned_tools is exactly the set of tool rows that
\* no association row references, in the SYSTEM table or in the
\* COMMON_BACKGROUND table, and the command returns that set: a tool with one
\* association in either scope is not returned.
C14_OrphanedTools ==
    /\ find_orphaned_tools(toolRows, assocRows)
           = {t \in toolRows : AssocOfTool(assocRows, t.id) = {}}
    /\ (tm.op = "find_orphaned_tools" /\ tm.pc = "done") =>
           tm.orphans = {t \in toolRows : AssocOfTool(assocRows, t.id) = {}}

C14_Witness ==
    /\ tm.op = "find_orphaned_tools" /\ tm.pc = "done"
    /\ tm.orphans # {}
    /\ \E t \in toolRows :
         /\ t \notin tm.orphans
         /\ \A r \in AssocOfTool(assocRows, t.id) : r.scope = "COMMON_BACKGROUND"

\* C26: when sync_agent_tools has returned, every declared entry without a
\* tool id has a tool row of its name under a generated id, and the agent is
\* associated with that tool.
C26_GeneratedToolId ==
    (tm.op = "sync_agent_tools" /\ tm.pc = "done") =>
        \A k \in 1..Len(tm.tools) :
            (tm.tools[k].toolId = None /\ tm.tools[k].res = "ok") =>
                \E t \in toolRows :
                    /\ t.name = tm.tools[k].name
                    /\ t.id \in AgentToolIds(assocRows, tm.scope, tm.agent)

\* C29: a single-item command whose operation has failed ends with a nonzero
\* exit status, the tool delete refused for its associations and the sync of
\* a missing definition included; a batch command that has returned its
\* lists ends with exit status zero.
C29_ExitStatus ==
    /\ (tm.op = "delete_tool" /\ tm.caller = None /\ tm.pc = "raised") =>
           main(delete_tool_command(TRUE, "ValueError")) # 0
    /\ (am.op \in {"sync_agent_to_db", "sync_agent_from_db"} /\ am.pc = "raised") =>
           main(command(TRUE)) # 0
    /\ (wm.op = "sync_workflow_to_db" /\ wm.pc = "raised") =>
           main(command(TRUE)) # 0
    /\ (am.op = "sync_all_agents" /\ am.pc = "done") => main(command(FALSE)) = 0
    /\ (wm.op = "sync_all_workflows" /\ wm.pc = "done") => main(command(FALSE)) = 0

\* C15: when the removal of one association of C - D fails in sync_agent_tools,
\* the call still returns, the other associations of C - D are removed and
\* those of D - C are added.
C15_RemovalsIndependent ==
    (tm.op = "sync_agent_tools" /\ tm.failed # None /\ tm.pc \in {"done", "raised"}) =>
        LET C == AssocSetOf(tm.before, tm.scope, tm.agent)
            D == tm.new
        IN /\ tm.pc = "done"
           /\ AssocSetOf(assocRows, tm.scope, tm.agent) \cap (C \ D) \subseteq {tm.failed}
           /\ D \ C \subseteq AssocSetOf(assocRows, tm.scope, tm.agent)

(***************************************************************************)
(* Claims about AgentManager                                               *)
(***************************************************************************)
HasAgentRow(rows, scope, name) == \E r \in rows : r.scope = scope /\ r.name = name

\* C5: while delete_agent runs on an agent that has a local directory, the
\* directory is never already removed while the agent's row is still in the
\* committed database.
C5_CommitBeforeRmtree ==
    (am.op = "delete_agent" /\ am.hadDir) =>
        ~(/\ ~agentDirs[<<am.scope, am.name>>].present
          /\ HasAgentRow(agentRows, am.scope, am.name))

\* C9: a sync_agent_to_db that returns right after a returned sync_agent_to_db
\* of the same, unchanged definition leaves the agent, tool and association
\* rows as the first left them, and its tool sync reports added = removed = 0.
C9_SyncTwice ==
    (/\ am.op = "sync_agent_to_db" /\ am.pc = "done"
     /\ hist.valid /\ hist.scope = am.scope /\ hist.name = am.name
     /\ hist.def = agentDirs[<<am.scope, am.name>>]) =>
        /\ agentRows = hist.agents
        /\ toolRows = hist.tools
        /\ assocRows = hist.assoc
        /\ am.added = 0 /\ am.removed = 0

\* C25: sync_agent_to_db of a definition that embeds an agentId writes the row
\* of that id: a row of the scope with the id is replaced by one with the
\* definition's name, description and prompt and the number of rows stays,
\* otherwise one row is added; called right after create_agent it writes and
\* returns the id create_agent returned and leaves the number of rows.
C25_SchemaIdUpsert ==
    /\ (/\ am.op = "sync_agent_to_db" /\ am.pc = "commit"
        /\ agentDirs[<<am.scope, am.name>>].agentId # None) =>
           LET def == agentDirs[<<am.scope, am.name>>]
               old == {r \in agentRows : r.scope = am.scope /\ r.id = def.agentId}
               row == [scope |-> am.scope, id |-> def.agentId, name |-> am.name,
                       description |-> def.description, prompt |-> strip(def.prompt)]
           IN /\ am.agentId = def.agentId
              /\ amTx = (agentRows \ old) \cup {row}
              /\ Cardinality(amTx) = Cardinality(agentRows) + (IF old = {} THEN 1 ELSE 0)
              /\ am.created # None =>
                     (def.agentId = am.created /\ Cardinality(amTx) = Cardinality(agentRows))
    /\ (am.op = "sync_agent_to_db" /\ am.pc = "done" /\ am.created # None) =>
           am.result = am.created

\* a sync that returned right after create_agent, the prompt of the row rewritten
C25_Witness ==
    /\ am.op = "sync_agent_to_db" /\ am.pc = "done" /\ am.created # None
    /\ am.result = am.created
    /\ \E r \in agentRows : r.id = am.created /\ r.prompt = <<"x">>
    /\ Cardinality(agentRows) > 1

\* C28: delete_agent of a name with no row in the scope returns False at once,
\* with the tables, the pending transaction and the local directories as
\* they were, a directory of that name included; with a matching row it goes
\* on, and when it has returned True neither a row of that name in the scope
\* nor the directory exists.
C28_DeleteAgentResult ==
    /\ [][(/\ am.pc = "idle" /\ am'.op = "delete_agent"
           /\ ~HasAgentRow(agentRows, am'.scope, am'.name)) =>
             (/\ am'.pc = "done" /\ am'.result = "False"
              /\ UNCHANGED <<agentRows, amTx, agentDirs, toolRows, assocRows>>)]_vars
    /\ [][(/\ am.pc = "idle" /\ am'.op = "delete_agent"
           /\ HasAgentRow(agentRows, am'.scope, am'.name)) => am'.pc = "rmtree"]_vars
    /\ [](am.op = "delete_agent" =>
            /\ am.pc \in {"rmtree", "commit", "done"}
            /\ am.pc = "done" => am.result \in {"True", "False"}
            /\ (am.pc = "done" /\ am.result = "False") =>
                   (/\ amTx = agentRows
                    /\ agentDirs[<<am.scope, am.name>>].present = am.hadDir)
            /\ (am.pc = "done" /\ am.result = "True") =>
                   (/\ ~HasAgentRow(agentRows, am.scope, am.name)
                    /\ ~agentDirs[<<am.scope, am.name>>].present))

\* delete_agent returned False for a name that has a local directory
C28_Witness ==
    /\ am.op = "delete_agent" /\ am.pc = "done" /\ am.result = "False"
    /\ agentDirs[<<am.scope, am.name>>].present

\* C30: the connection and the cursor of a manager are open only while its
\* with-block runs: they are closed by the step that leaves the block, by
\* return or by exception; the ToolManager that sync_agent_to_db opens is
\* open only while sync_agent_to_db waits in that block; and every
\* connection that is open is closed later.
C30_ConnectionsReleased ==
    /\ [](/\ am.pc = "idle" => (~am.conn /\ ~am.cursor)
          /\ tm.pc = "idle" => (~tm.conn /\ ~tm.cursor)
          /\ wm.pc = "idle" => (~wm.conn /\ ~wm.cursor)
          /\ ((tm.conn \/ tm.cursor) /\ tm.caller = "am") => (am.pc = "wait" /\ am.conn))
    /\ [][/\ (am.pc \in {"done", "raised"} /\ am'.pc \notin {"done", "raised"}) =>
                 (~am'.conn /\ ~am'.cursor)
          /\ (tm.pc \in {"done", "raised"} /\ tm'.pc \notin {"done", "raised"}) =>
                 (~tm'.conn /\ ~tm'.cursor)
          /\ (wm.pc \in {"done", "raised"} /\ wm'.pc \notin {"done", "raised"}) =>
                 (~wm'.conn /\ ~wm'.cursor)]_vars
    /\ (am.conn ~> ~am.conn)
    /\ (tm.conn ~> ~tm.conn)
    /\ (wm.conn ~> ~wm.conn)

\* the nested ToolManager has raised inside the with-block of sync_agent_to_db,
\* both connections still open
C30_Witness ==
    /\ am.op = "sync_agent_to_db" /\ am.pc = "wait" /\ am.conn
    /\ tm.caller = "am" /\ tm.pc = "raised" /\ tm.conn /\ tm.cursor

\* C18: every committed agent-tool association references an agent row of its
\* scope and a tool row.
C18_AssociationsResolve ==
    \A r \in assocRows :
        /\ \E a \in agentRows : a.scope = r.scope /\ a.id = r.agentId
        /\ get_tool(toolRows, r.toolId)

\* C11: sync_agent_from_db that returns right after a returned sync_agent_to_db
\* of the same agent leaves on disk the description and the prompt text the
\* definition had before the two calls, under the same name.
C11_RoundTrip ==
    (/\ am.op = "sync_agent_from_db" /\ am.pc = "done"
     /\ hist.valid /\ hist.scope = am.scope /\ hist.name = am.name) =>
        /\ agentDirs[<<am.scope, am.name>>].present
        /\ agentDirs[<<am.scope, am.name>>].description = hist.def.description
        /\ agentDirs[<<am.scope, am.name>>].prompt = hist.def.prompt

\* the definitions of alice in the runs that watch the connections: no tools
\* key, or a tools list that keeps, replaces or fails to upsert
ConnDefs ==
    {AgentDirOf("a1")} \cup
    {[AgentDirOf("a1") EXCEPT !.hasTools = TRUE, !.tools = l] :
        l \in {<<>>, <<ToolEntry("t1", "ok")>>, <<ToolEntry("t2", "ok")>>,
               <<ToolEntry("t3", "server_error")>>}}

\* alice (a1) is a row of SYSTEM associated with t1 and t3 and has one of the
\* definitions; bob and the workflow w1 have no directory
InitConn ==
    /\ InitIdle
    /\ \E d \in ConnDefs :
         agentDirs = [k \in Scopes \X Names |->
                        IF k = <<"SYSTEM", "alice">> THEN d ELSE NoDir]
    /\ agentRows = {AgentRow("SYSTEM", "a1", "alice")} /\ amTx = agentRows
    /\ assocRows = AssocRowsFor("SYSTEM", "a1", {"t1", "t3"})
    /\ toolRows = ToolRowsFor({"t1", "t3"})
    /\ wfDirs = [k \in Scopes \X WfIds |-> NoWf]

\* commands of the three managers, one process at a time, each with-block
\* left by return or by an exception
NextConn ==
    \/ \E n \in Names : wm.pc = "idle" /\ sync_agent_to_db_Begin(n, "SYSTEM")
    \/ sync_agent_to_db_Commit
    \/ sync_agent_to_db_Tools
    \/ sync_agent_to_db_ToolsEnd
    \/ sync_agent_to_db_Return
    \/ \E n \in Names : wm.pc = "idle" /\ delete_agent_Begin(n, "SYSTEM")
    \/ delete_agent_Rmtree
    \/ delete_agent_Commit
    \/ AgentManager_exit
    \/ sync_agent_tools_Upsert
    \/ sync_agent_tools_Diff
    \/ sync_agent_tools_Remove
    \/ sync_agent_tools_RemoveFails
    \/ sync_agent_tools_AddBegin
    \/ sync_agent_tools_Add
    \/ sync_agent_tools_Return
    \/ \E t \in {"t1", "t2"} :
           wm.pc = "idle" /\ ToolManager_delete_tool(t, FALSE)
    \/ delete_tool_Count
    \/ delete_tool_System
    \/ delete_tool_Common
    \/ delete_tool_Row
    \/ delete_tool_Commit
    \/ ToolManager_exit
    \/ am.pc = "idle" /\ tm.pc = "idle" /\ sync_workflow_to_db_Begin("w1", "SYSTEM")
    \/ am.pc = "idle" /\ tm.pc = "idle" /\ validate_workflow("w1", "SYSTEM")
    \/ WorkflowManager_exit

\* a process that runs a command goes on to its next statement
SpecConn == InitConn /\ [][NextConn]_vars /\ WF_vars(NextConn)

(***************************************************************************)
(* Workflow specifications                                                 *)
(***************************************************************************)
WfAgentRows == {AgentRow("SYSTEM", "a1", "alice")}

\* WorkflowManager commands on the SYSTEM directory w1, whose workflow.json
\* the operator may rewrite between commands
InitWf ==
    /\ InitIdle
    /\ agentRows = WfAgentRows /\ amTx = agentRows
    /\ toolRows = {} /\ assocRows = {}
    /\ agentDirs = [k \in Scopes \X Names |-> NoDir]
    /\ wfDirs = [k \in Scopes \X WfIds |-> NoWf]

NextWf ==
    \/ \E d \in WfDefs("w1") : edit_workflow_json("w1", "SYSTEM", d)
    \/ sync_workflow_to_db_Begin("w1", "SYSTEM")
    \/ delete_workflow_Begin("w1", "SYSTEM")
    \/ sync_workflow_to_db_Upsert
    \/ _sync_workflow_nodes_Delete
    \/ _sync_workflow_nodes_Insert
    \/ _sync_workflow_edges_Delete
    \/ _sync_workflow_edges_Insert
    \/ sync_workflow_to_db_Entrypoint
    \/ sync_workflow_to_db_Commit
    \/ sync_workflow_to_db_Return
    \/ delete_workflow_Rmtree
    \/ delete_workflow_Commit
    \/ WorkflowManager_exit

SpecWf == InitWf /\ [][NextWf]_vars

\* create_workflow, sync_workflow_to_db and delete_workflow in both scopes
NextWfCreate ==
    \/ \E w \in WfIds, sc \in Scopes : create_workflow_Begin(w, sc)
    \/ \E w \in WfIds, sc \in Scopes : sync_workflow_to_db_Begin(w, sc)
    \/ \E w \in WfIds, sc \in Scopes : delete_workflow_Begin(w, sc)
    \/ sync_workflow_to_db_Upsert
    \/ _sync_workflow_nodes_Delete
    \/ _sync_workflow_nodes_Insert
    \/ _sync_workflow_edges_Delete
    \/ sync_workflow_to_db_Entrypoint
    \/ sync_workflow_to_db_Commit
    \/ sync_workflow_to_db_Return
    \/ delete_workflow_Rmtree
    \/ delete_workflow_Commit
    \/ WorkflowManager_exit

SpecWfCreate == InitWf /\ [][NextWfCreate]_vars

\* the definitions of the batch runs: no edges, the entrypoint unset or the first node
BatchDefs(w) == {d \in WfDefs(w) : d.id = w /\ d.edges = <<>> /\ d.entry # NodePool[w][2]}

\* sync_all_workflows over the SYSTEM directories w1 and w2
InitWfBatch ==
    /\ InitIdle
    /\ agentRows = WfAgentRows /\ amTx = agentRows
    /\ toolRows = {} /\ assocRows = {}
    /\ agentDirs = [k \in Scopes \X Names |-> NoDir]
    /\ \E d1 \in BatchDefs("w1"), d2 \in BatchDefs("w2") :
         wfDirs = [k \in Scopes \X WfIds |->
                     IF k = <<"SYSTEM", "w1">> THEN d1
                     ELSE IF k = <<"SYSTEM", "w2">> THEN d2 ELSE NoWf]

NextWfBatch ==
    \/ \E scopes \in {{"SYSTEM"}, Scopes} : sync_all_workflows_Begin(scopes)
    \/ sync_all_workflows_Next
    \/ sync_all_workflows_Except
    \/ sync_all_workflows_Return
    \/ sync_workflow_to_db_Upsert
    \/ _sync_workflow_nodes_Delete
    \/ _sync_workflow_nodes_Insert
    \/ _sync_workflow_edges_Delete
    \/ sync_workflow_to_db_Entrypoint
    \/ sync_workflow_to_db_Commit
    \/ sync_workflow_to_db_Return
    \/ WorkflowManager_exit

SpecWfBatch == InitWfBatch /\ [][NextWfBatch]_vars

\* the agent definitions of the batch runs: no tools key, one tool, or a tool
\* whose upsert the server rejects
BatchAgentDefs(id) ==
    {AgentDirOf(id)}
    \cup {[AgentDirOf(id) EXCEPT !.hasTools = TRUE, !.tools = l] :
            l \in {<<>>, <<ToolEntry("t1", "ok")>>, <<ToolEntry("t3", "server_error")>>}}

\* the workflow definitions of the batch runs with agents: at most one node
SmallBatchDefs(w) == {d \in BatchDefs(w) : Len(d.nodes) <= 1 /\ d.entry = None}

\* sync_all_agents over the agents alice and bob and sync_all_workflows over
\* the workflows w1 and w2; alice was synced before and is associated with t1
InitBatch ==
    /\ InitIdle
    /\ agentRows = {AgentRow("SYSTEM", "a1", "alice")} /\ amTx = agentRows
    /\ toolRows = ToolRowsFor({"t1"})
    /\ assocRows = AssocRowsFor("SYSTEM", "a1", {"t1"})
    /\ \E da \in BatchAgentDefs("a1"), db \in BatchAgentDefs("a2"), sb \in Scopes :
         agentDirs = [k \in Scopes \X Names |->
                        IF k = <<"SYSTEM", "alice">> THEN da
                        ELSE IF k = <<sb, "bob">> THEN db ELSE NoDir]
    /\ \E d1 \in SmallBatchDefs("w1"), d2 \in SmallBatchDefs("w2") :
         wfDirs = [k \in Scopes \X WfIds |->
                     IF k = <<"SYSTEM", "w1">> THEN d1
                     ELSE IF k = <<"SYSTEM", "w2">> THEN d2 ELSE NoWf]

NextBatch ==
    \/ \E scopes \in {{"SYSTEM"}, Scopes} : wm.pc = "idle" /\ sync_all_agents_Begin(scopes)
    \/ sync_all_agents_Next
    \/ sync_all_agents_Except
    \/ sync_all_agents_Return
    \/ sync_agent_to_db_Commit
    \/ sync_agent_to_db_Tools
    \/ sync_agent_to_db_ToolsEnd
    \/ sync_agent_to_db_Return
    \/ sync_agent_tools_Upsert
    \/ sync_agent_tools_Diff
    \/ sync_agent_tools_Remove
    \/ sync_agent_tools_AddBegin
    \/ sync_agent_tools_Add
    \/ sync_agent_tools_Return
    \/ AgentManager_exit
    \/ \E scopes \in {{"SYSTEM"}, Scopes} : am.pc = "idle" /\ sync_all_workflows_Begin(scopes)
    \/ sync_all_workflows_Next
    \/ sync_all_workflows_Except
    \/ sync_all_workflows_Return
    \/ sync_workflow_to_db_Upsert
    \/ _sync_workflow_nodes_Delete
    \/ _sync_workflow_nodes_Insert
    \/ _sync_workflow_edges_Delete
    \/ sync_workflow_to_db_Entrypoint
    \/ sync_workflow_to_db_Commit
    \/ sync_workflow_to_db_Return
    \/ WorkflowManager_exit

SpecBatch == InitBatch /\ [][NextBatch]_vars

\* the local agent definitions of the runs with agents: alice in SYSTEM with
\* agentId a1, bob in COMMON_BACKGROUND with agentId a2
\* workflow definitions whose nodes all reference a1 or a2
AgentNodeDefs(w) ==
    LET ofA1 == {d \in WfDefs(w) : /\ d.id = w /\ d.edges = <<>> /\ d.entry = None
                                   /\ d.nodes # <<>>
                                   /\ \A k \in 1..Len(d.nodes) : d.nodes[k].agentId = "a1"}
    IN ofA1 \cup {[d EXCEPT !.nodes[1].agentId = "a2"] : d \in ofA1}

\* AgentManager and WorkflowManager commands, one after the other, on the
\* local agents alice and bob and the SYSTEM workflow w1
InitWfAgents ==
    /\ InitIdle
    /\ agentRows = {} /\ amTx = {}
    /\ toolRows = {} /\ assocRows = {}
    /\ agentDirs = [k \in Scopes \X Names |->
                      IF k = <<"SYSTEM", "alice">> THEN AgentDirOf("a1")
                      ELSE IF k = <<"COMMON_BACKGROUND", "bob">> THEN AgentDirOf("a2")
                      ELSE NoDir]
    /\ \E d \in AgentNodeDefs("w1") :
         wfDirs = [k \in Scopes \X WfIds |-> IF k = <<"SYSTEM", "w1">> THEN d ELSE NoWf]

NextWfAgents ==
    \/ wm.pc = "idle" /\ sync_agent_to_db_Begin("alice", "SYSTEM")
    \/ wm.pc = "idle" /\ sync_agent_to_db_Begin("bob", "COMMON_BACKGROUND")
    \/ sync_agent_to_db_Commit
    \/ sync_agent_to_db_Return
    \/ wm.pc = "idle" /\ delete_agent_Begin("alice", "SYSTEM")
    \/ wm.pc = "idle" /\ delete_agent_Begin("bob", "COMMON_BACKGROUND")
    \/ delete_agent_Rmtree
    \/ delete_agent_Commit
    \/ AgentManager_exit
    \/ am.pc = "idle" /\ sync_workflow_to_db_Begin("w1", "SYSTEM")
    \/ sync_workflow_to_db_Upsert
    \/ _sync_workflow_nodes_Delete
    \/ _sync_workflow_nodes_Insert
    \/ _sync_workflow_edges_Delete
    \/ sync_workflow_to_db_Entrypoint
    \/ sync_workflow_to_db_Commit
    \/ sync_workflow_to_db_Return
    \/ \E a \in {None, "a1", "a2"} :
           am.pc = "idle" /\ add_node_to_workflow("w1", "SYSTEM", a)
    \/ WorkflowManager_exit

SpecWfAgents == InitWfAgents /\ [][NextWfAgents]_vars

\* workflow definitions for validate_workflow: up to MaxGraph nodes, the first
\* with or without the agent a1, no edge or one edge: between two nodes, with
\* no target, or from a node that no list holds
GraphDefs(w) ==
    [present : {TRUE}, id : {w},
     entry : {None, NodePool[w][1], NodePool[w][3]},
     nodes : {[k \in 1..n |-> [id |-> NodePool[w][k],
                               agentId |-> IF k = 1 THEN a ELSE None]] :
                 n \in 0..MaxGraph, a \in {None, "a1"}},
     edges : {<<>>} \cup
             {<<[id |-> EdgePool[w], src |-> st[1], tgt |-> st[2]]>> :
                 st \in {<<NodePool[w][1], NodePool[w][2]>>,
                         <<NodePool[w][1], None>>,
                         <<"w9n9", NodePool[w][1]>>}}]

\* sync, validate and delete commands on the SYSTEM workflow w1 and the agent
\* alice (a1), the operator rewriting workflow.json between commands
NextWfValidate ==
    \/ \E d \in GraphDefs("w1") : am.pc = "idle" /\ edit_workflow_json("w1", "SYSTEM", d)
    \/ am.pc = "idle" /\ sync_workflow_to_db_Begin("w1", "SYSTEM")
    \/ sync_workflow_to_db_Upsert
    \/ _sync_workflow_nodes_Delete
    \/ _sync_workflow_nodes_Insert
    \/ _sync_workflow_edges_Delete
    \/ _sync_workflow_edges_Insert
    \/ sync_workflow_to_db_Entrypoint
    \/ sync_workflow_to_db_Commit
    \/ sync_workflow_to_db_Return
    \/ am.pc = "idle" /\ validate_workflow("w1", "SYSTEM")
    \/ WorkflowManager_exit
    \/ wm.pc = "idle" /\ delete_agent_Begin("alice", "SYSTEM")
    \/ delete_agent_Rmtree
    \/ delete_agent_Commit
    \/ AgentManager_exit

SpecWfValidate == InitWf /\ [][NextWfValidate]_vars

\* the commands of SpecWfAgents, and syncs of names that have no local
\* directory: the workflow w2, and the agent bob in scope SYSTEM, which another
\* process may run while a WorkflowManager command is under way
NextNotFound ==
    \/ NextWfAgents
    \/ am.pc = "idle" /\ sync_workflow_to_db_Begin("w2", "SYSTEM")
    \/ sync_agent_to_db_Begin("bob", "SYSTEM")

SpecNotFound == InitWfAgents /\ [][NextNotFound]_vars

(***************************************************************************)
(* Claims about WorkflowManager                                            *)
(***************************************************************************)
\* the definition has a node whose agentId names no row of system_agent
HasDanglingNode(def) ==
    \E k \in 1..Len(def.nodes) :
        def.nodes[k].agentId # None /\ ~_validate_agent_exists(def.nodes[k].agentId)

\* the sync pipeline of wm is past its workflow upsert and not yet returned
InPipeline == wm.pc \in {"delnodes", "nodes", "edges", "commit"}

\* the node and edge rows a definition gives the workflow of directory wid
NodeRowsOf(def, wid) ==
    {[id |-> def.nodes[k].id, wf |-> wid, agentId |-> def.nodes[k].agentId] :
        k \in 1..Len(def.nodes)}
EdgeRowsOf(def, wid) ==
    {[id |-> def.edges[k].id, wf |-> wid, src |-> def.edges[k].src,
      tgt |-> def.edges[k].tgt] : k \in 1..Len(def.edges)}

\* db holds workflow wid as a sync of def left it, the entrypoint set
Synced(db, wid, def) ==
    /\ def.present /\ def.id = wid /\ def.entry # None
    /\ [id |-> wid, entry |-> def.entry] \in db.wf
    /\ RowsOf(db, wid).nodes = NodeRowsOf(def, wid)
    /\ RowsOf(db, wid).edges = EdgeRowsOf(def, wid)

C3_FailedSyncNeverCommitted ==
    \A f \in wm.failed : RowsOf(wfDb, f.wid) = f.rows

\* C6: the entrypoint of every committed workflow row is unset or the id of a
\* committed node row of that workflow.
C6_EntrypointBelongs ==
    \A r \in wfDb.wf :
        r.entry = None \/ \E n \in wfDb.nodes : n.id = r.entry /\ n.wf = r.id

\* C7: right after the workflow upsert of sync_workflow_to_db the workflow row
\* has no entrypoint, whether the row was inserted or was already there.
C7_ShellEntrypointNull ==
    (wm.pc = "delnodes" /\ wm.op = "sync_workflow_to_db") =>
        \A r \in wfTx.wf : r.id = wm.def.id => r.entry = None

\* C8: at every point of sync_workflow_to_db after the workflow upsert, every
\* node row of the workflow has its workflow row, and the entrypoint of the
\* workflow row, when set, is the id of a node row.
C8_WriteOrder ==
    (InPipeline /\ wm.op = "sync_workflow_to_db") =>
        /\ \A n \in wfTx.nodes : n.wf = wm.wid => \E r \in wfTx.wf : r.id = n.wf
        /\ \A r \in wfTx.wf : (r.id = wm.wid /\ r.entry # None) =>
               \E n \in wfTx.nodes : n.id = r.entry

\* the agent id is the id of an agent row of some scope
AgentInSomeScope(agent_id) == \E r \in agentRows : r.id = agent_id

\* C16: the node step of sync_workflow_to_db rejects a node with an agent
\* reference only when the agent exists in no scope (an agent that exists in
\* COMMON_BACKGROUND alone is accepted), and every node row it inserts with
\* an agent reference names an agent of some scope.
C16_AgentInAnyScope ==
    /\ (/\ wm.op = "sync_workflow_to_db" /\ wm.pc = "raised"
        /\ wm.outcome = "dangling") =>
           ~AgentInSomeScope(wm.def.nodes[wm.i].agentId)
    /\ (wm.op = "sync_workflow_to_db" /\ wm.pc = "nodes") =>
           \A k \in 1..(wm.i - 1) :
               wm.def.nodes[k].agentId # None => AgentInSomeScope(wm.def.nodes[k].agentId)

\* C17: every committed workflow node whose agent id is set references an
\* agent row of some scope.
C17_NodeAgentsExist ==
    \A n \in wfDb.nodes : n.agentId # None => AgentInSomeScope(n.agentId)

\* validate_workflow was called for a workflow that has a row, and the row,
\* the node ids and the edges the database holds for it
ValidateCalled ==
    /\ wm.op = "validate_workflow" /\ wm.pc \in {"done", "raised"}
    /\ \E r \in wfDb.wf : r.id = wm.wid
ValidateReturned == ValidateCalled /\ wm.pc = "done"
StoredWorkflow == CHOOSE r \in wfDb.wf : r.id = wm.wid
StoredNodes == {n \in wfDb.nodes : n.wf = wm.wid}
StoredNodeIds == {n.id : n \in StoredNodes}
StoredEdges == {e \in wfDb.edges : e.wf = wm.wid}
HasError(kind, of) == \E e \in wm.report.errors : e.kind = kind /\ e.of = of

C22_EdgeErrors ==
    ValidateCalled =>
        /\ wm.pc = "done"
        /\ \A e \in StoredEdges :
              /\ e.src \notin StoredNodeIds => HasError("source", e.id)
              /\ (e.tgt # None /\ e.tgt \notin StoredNodeIds) => HasError("target", e.id)
              /\ (e.src \in StoredNodeIds /\ e.tgt = None) =>
                     ~(HasError("source", e.id) \/ HasError("target", e.id))

\* C23: the result of validate_workflow has one orphaned-node warning naming
\* the node ids that are no source or target of an edge and not the
\* entrypoint, and no warning when there is none; for three nodes, one edge
\* from the first to the second and the first as entrypoint it returns the
\* warning for the third, no error and valid = true.
C23_OrphanWarning ==
    LET connected == {e.src : e \in StoredEdges} \cup ({e.tgt : e \in StoredEdges} \ {None})
        orphaned == (StoredNodeIds \ connected) \ {StoredWorkflow.entry}
        example == /\ StoredNodeIds = {NodePool["w1"][1], NodePool["w1"][2], NodePool["w1"][3]}
                   /\ {<<e.src, e.tgt>> : e \in StoredEdges}
                         = {<<NodePool["w1"][1], NodePool["w1"][2]>>}
                   /\ StoredWorkflow.entry = NodePool["w1"][1]
    IN /\ ValidateReturned =>
              wm.report.warnings =
                  IF orphaned = {} THEN {} ELSE {[kind |-> "orphaned", ids |-> orphaned]}
       /\ (ValidateCalled /\ example) =>
              /\ wm.pc = "done"
              /\ wm.report.warnings = {[kind |-> "orphaned", ids |-> {NodePool["w1"][3]}]}
              /\ wm.report.errors = {}
              /\ wm.report.valid

\* C24: the result of validate_workflow has an error for every stored node of
\* the workflow whose agent id is set and is the id of no agent row of any
\* scope, and is not valid when there is such a node.
C24_AgentErrors ==
    ValidateReturned =>
        \A n \in StoredNodes :
            (n.agentId # None /\ ~AgentInSomeScope(n.agentId)) =>
                (HasError("agent", n.id) /\ ~wm.report.valid)

\* C27: sync_agent_to_db and sync_workflow_to_db of a name whose local
\* directory is absent raise the not-found error with no statement sent: the
\* step that raises leaves every table and every pending transaction as it
\* was, and while the error stands the connection has nothing pending.
C27_NotFoundBeforeStatements ==
    /\ [][(/\ am.pc = "idle" /\ am'.op = "sync_agent_to_db"
           /\ ~agentDirs[<<am'.scope, am'.name>>].present) =>
             (/\ am'.pc = "raised"
              /\ UNCHANGED <<agentRows, amTx, toolRows, assocRows, wfDb, wfTx>>)]_vars
    /\ [][(/\ wm.pc = "idle" /\ wm'.op = "sync_workflow_to_db"
           /\ ~wfDirs[<<wm'.scope, wm'.wid>>].present) =>
             (/\ wm'.pc = "raised" /\ wm'.outcome = "notfound"
              /\ UNCHANGED <<agentRows, amTx, toolRows, assocRows, wfDb, wfTx>>)]_vars
    /\ []((/\ wm.op = "sync_workflow_to_db" /\ wm.pc = "raised"
           /\ wm.outcome = "notfound") => (wfTx = wfDb /\ wfDb = wm.before))
    /\ []((/\ am.op = "sync_agent_to_db" /\ am.pc = "raised"
           /\ ~agentDirs[<<am.scope, am.name>>].present) => amTx = agentRows)

\* both syncs have raised for an absent directory, on a database that holds
\* agent, workflow and node rows
C27_Witness ==
    /\ am.op = "sync_agent_to_db" /\ am.pc = "raised"
    /\ ~agentDirs[<<am.scope, am.name>>].present
    /\ wm.op = "sync_workflow_to_db" /\ wm.pc = "raised" /\ wm.outcome = "notfound"
    /\ agentRows # {} /\ wfDb.wf # {} /\ wfDb.nodes # {}

\* the entries of a batch call m: those to come, those in the result lists and
\* the one being synced (cur)
BatchAll(m, cur) ==
    m.todo \cup m.success \cup m.errors
        \cup (IF m.pc \in {"batch", "done"} THEN {} ELSE {cur})

\* no entry is in two of them, and the call returns with none left to come
BatchSound(m, cur) ==
    /\ m.success \cap m.errors = {}
    /\ m.todo \cap (m.success \cup m.errors) = {}
    /\ m.pc \notin {"batch", "done"} => cur \notin (m.todo \cup m.success \cup m.errors)
    /\ m.pc = "done" => m.todo = {}

\* C19: sync_all_agents and sync_all_workflows sync one directory at a time;
\* an entry whose sync returned goes to success, one whose sync raised goes to
\* errors and the loop goes on; no entry is lost or listed twice, and the
\* call returns only when every entry has been attempted.
C19_BatchAccounts ==
    /\ [](am.op = "sync_all_agents" => BatchSound(am, <<am.scope, am.name>>))
    /\ [](wm.op = "sync_all_workflows" => BatchSound(wm, <<wm.scope, wm.wid>>))
    /\ [][(am.op = "sync_all_agents" /\ am'.op = "sync_all_agents" /\ am' # am) =>
            /\ BatchAll(am', <<am'.scope, am'.name>>) = BatchAll(am, <<am.scope, am.name>>)
            /\ am.pc = "return" => <<am.scope, am.name>> \in am'.success
            /\ am.pc = "raised" => (<<am.scope, am.name>> \in am'.errors /\ am'.pc = "batch")
            /\ am.pc \notin {"return", "raised"} =>
                   (am'.success = am.success /\ am'.errors = am.errors)]_vars
    /\ [][(wm.op = "sync_all_workflows" /\ wm'.op = "sync_all_workflows" /\ wm' # wm) =>
            /\ BatchAll(wm', <<wm'.scope, wm'.wid>>) = BatchAll(wm, <<wm.scope, wm.wid>>)
            /\ wm.pc = "ret" => <<wm.scope, wm.wid>> \in wm'.success
            /\ wm.pc = "raised" => (<<wm.scope, wm.wid>> \in wm'.errors /\ wm'.pc = "batch")
            /\ wm.pc \notin {"ret", "raised"} =>
                   (wm'.success = wm.success /\ wm'.errors = wm.errors)]_vars

\* sync_all_agents has returned with an entry in each list
C19_Witness ==
    /\ am.op = "sync_all_agents" /\ am.pc = "done"
    /\ am.success # {} /\ am.errors # {}

\* C20: when sync_workflow_to_db has returned, the committed node rows and edge
\* rows of the workflow are exactly the nodes and edges of the definition:
\* rows of an earlier sync that the definition lacks are gone, and an edge is
\* stored whether or not its source and target are nodes of the definition.
C20_FullReplace ==
    (wm.op = "sync_workflow_to_db" /\ wm.pc = "done") =>
        /\ RowsOf(wfDb, wm.wid).nodes = NodeRowsOf(wm.def, wm.wid)
        /\ RowsOf(wfDb, wm.wid).edges = EdgeRowsOf(wm.def, wm.wid)

\* the earlier sync left a node and an edge the definition lacks, and the
\* definition has an edge whose target is none of its nodes
C20_Witness ==
    /\ wm.op = "sync_workflow_to_db" /\ wm.pc = "done"
    /\ RowsOf(wm.before, wm.wid).nodes \ NodeRowsOf(wm.def, wm.wid) # {}
    /\ Len(wm.def.nodes) = 1 /\ Len(wm.def.edges) = 1
    /\ wm.def.edges[1].tgt \notin {wm.def.nodes[k].id : k \in 1..Len(wm.def.nodes)}

\* C10: sync_workflow_to_db on a workflow the database already holds as its
\* definition describes it (row with entrypoint, nodes, edges, as after
\* create_workflow) returns the workflow id and leaves the committed tables as
\* they were, the workflow row still there; delete_workflow of a workflow whose
\* row is there returns true.
C10_Resync ==
    /\ (/\ wm.op = "sync_workflow_to_db" /\ wm.pc \in {"done", "raised"}
        /\ Synced(wm.before, wm.wid, wfDirs[<<wm.scope, wm.wid>>])) =>
           /\ wm.pc = "done" /\ wm.result = wm.wid
           /\ wfDb = wm.before
           /\ \E r \in wfDb.wf : r.id = wm.wid
    /\ (/\ wm.op = "delete_workflow" /\ wm.pc = "done"
        /\ \E r \in wm.before.wf : r.id = wm.wid) =>
           /\ wm.result = "True"
           /\ ~\E r \in wfDb.wf : r.id = wm.wid

\* the re-sync of a workflow made by create_workflow has returned
C10_Witness ==
    /\ wm.op = "sync_workflow_to_db" /\ wm.pc = "done" /\ wm.result = wm.wid
    /\ Synced(wm.before, wm.wid, wfDirs[<<wm.scope, wm.wid>>])
    /\ wfDirs[<<wm.scope, wm.wid>>].entry \in Range(UuidPool)
    /\ wfDb = wm.before

(***************************************************************************)
(* Scopes                                                                  *)
(***************************************************************************)

\* WorkflowManager._get_table_name: the table of a resource; the scope is not looked at
_get_table_name(scope, resource) ==
    CASE resource = "WORKFLOW" -> "system_agent_workflow"
      [] resource = "WORKFLOW_NODE" -> "system_agent_workflow_node"
      [] resource = "WORKFLOW_EDGE" -> "system_agent_workflow_edge"
      [] resource = "AGENT" -> "system_agent"

\* the rows of a table of the workflow database
TableRows(db, table) ==
    CASE table = "system_agent_workflow" -> db.wf
      [] table = "system_agent_workflow_node" -> db.nodes
      [] table = "system_agent_workflow_edge" -> db.edges

\* the workflow, node and edge rows that a WorkflowManager call with this scope reads and writes
ScopeRows(db, scope) ==
    [wf |-> TableRows(db, _get_table_name(scope, "WORKFLOW")),
     nodes |-> TableRows(db, _get_table_name(scope, "WORKFLOW_NODE")),
     edges |-> TableRows(db, _get_table_name(scope, "WORKFLOW_EDGE"))]

\* AgentManager._get_table_name: metadata.system_agent or metadata.common_background_agent
AgentTable(rows, scope) == {r \in rows : r.scope = scope}

\* C31: sync_workflow_to_db, create_workflow and delete_workflow called with
\* one scope leave the committed workflow, node and edge rows of the other
\* scope as they were, and an agent operation in one scope leaves the agent
\* rows of the other scope as they were.
C31_ScopesIndependent ==
    [][/\ \A sc \in Scopes :
            (/\ wm'.op \in {"sync_workflow_to_db", "create_workflow", "delete_workflow"}
             /\ wm'.scope = OtherScope(sc)) =>
                ScopeRows(wfDb', sc) = ScopeRows(wfDb, sc)
       /\ \A sc \in Scopes :
            (am'.op # None /\ am'.scope = OtherScope(sc)) =>
                AgentTable(agentRows', sc) = AgentTable(agentRows, sc)]_vars

\* C32: after delete_workflow has returned true, the committed tables hold no
\* node row and no edge row with the id of the deleted workflow.
C32_DeleteRemovesGraph ==
    (wm.op = "delete_workflow" /\ wm.pc = "done" /\ wm.result = "True") =>
        /\ RowsOf(wfDb, wm.wid).nodes = {}
        /\ RowsOf(wfDb, wm.wid).edges = {}

(***************************************************************************)
(* list_agents and list_workflows                                          *)
(* The list returned is kept as a bag of the rows with their 'scope'       *)
(* column: the order of the list (ORDER BY name) is left out.              *)
(***************************************************************************)
ScopeArgs == Scopes \cup {None}

\* SELECT *, '<tag>' as scope FROM {table}
select_scope(rows, tag) == SetToBag({[row |-> r, scope |-> tag] : r \in rows})

\* AgentManager.list_agents: one table for a scope, UNION ALL of both without
list_agents(rows, scope) ==
    IF scope # None
    THEN select_scope(AgentTable(rows, scope), scope)
    ELSE select_scope(AgentTable(rows, "SYSTEM"), "SYSTEM")
           (+) select_scope(AgentTable(rows, "COMMON_BACKGROUND"), "COMMON_BACKGROUND")

\* WorkflowManager.list_workflows: the table _get_table_name names for a scope,
\* UNION ALL of the tables it names for SYSTEM and for COMMON_BACKGROUND without
list_workflows(db, scope) ==
    IF scope # None
    THEN select_scope(TableRows(db, _get_table_name(scope, "WORKFLOW")), scope)
    ELSE select_scope(TableRows(db, _get_table_name("SYSTEM", "WORKFLOW")), "SYSTEM")
           (+) select_scope(TableRows(db, _get_table_name("COMMON_BACKGROUND", "WORKFLOW")),
                            "COMMON_BACKGROUND")

\* with AgentManager() as am: agents = am.list_agents(scope)
AgentManager_list_agents(scope) ==
    /\ am.pc = "idle" /\ tm.pc = "idle"
    /\ am' = [AmEnter EXCEPT !.pc = "done", !.op = "list_agents", !.scope = scope,
                            !.listed = list_agents(amTx, scope)]
    /\ UNCHANGED <<agentRows, amTx, agentDirs, hist, toolVars, wfVars, uuids, calls>>

\* with WorkflowManager() as wm: workflows = wm.list_workflows(scope)
WorkflowManager_list_workflows(scope) ==
    /\ wm.pc = "idle" /\ ~edited
    /\ wm' = [WmEnter EXCEPT !.pc = "done", !.op = "list_workflows", !.scope = scope,
                            !.outcome = "ok", !.listed = list_workflows(wfTx, scope)]
    /\ UNCHANGED <<wfDb, wfTx, wfDirs, agentVars, toolVars, edited, uuids, calls>>

\* agent rows of both scopes, two of them with the same id and name
ListAgentRows ==
    {AgentRow("SYSTEM", "a1", "alice"), AgentRow("COMMON_BACKGROUND", "a1", "alice"),
     AgentRow("COMMON_BACKGROUND", "a2", "bob")}

InitList ==
    /\ InitIdle
    /\ agentRows \in SUBSET ListAgentRows /\ amTx = agentRows
    /\ toolRows = {} /\ assocRows = {}
    /\ agentDirs = [k \in Scopes \X Names |-> NoDir]
    /\ wfDirs = [k \in Scopes \X WfIds |-> NoWf]

\* the workflow commands of both scopes, and the two lists
NextList ==
    \/ NextWfCreate
    \/ \E sc \in ScopeArgs : AgentManager_list_agents(sc)
    \/ \E sc \in ScopeArgs : WorkflowManager_list_workflows(sc)
    \/ AgentManager_exit

SpecList == InitList /\ [][NextList]_vars

\* how often the stored row r is in the list, under any scope column
CopiesOfRow(r, listed) ==
    CopiesIn([row |-> r, scope |-> "SYSTEM"], listed)
      + CopiesIn([row |-> r, scope |-> "COMMON_BACKGROUND"], listed)

\* C33: list_agents and list_workflows without a scope return every stored row
\* exactly once, and every row of a list has the scope column of the scope it
\* is stored in; with a scope they return the rows of that scope, each once,
\* and nothing else.
C33_Lists ==
    /\ (am.op = "list_agents" /\ am.pc = "done") =>
          /\ \A r \in agentRows :
                CopiesOfRow(r, am.listed) =
                    IF am.scope \in {None, r.scope} THEN 1 ELSE 0
          /\ \A e \in BagToSet(am.listed) : e.row \in agentRows /\ e.scope = e.row.scope
    /\ (wm.op = "list_workflows" /\ wm.pc = "done" /\ wm.scope = None) =>
          /\ \A r \in wfDb.wf : CopiesOfRow(r, wm.listed) = 1
          /\ \A e \in BagToSet(wm.listed) : e.row \in wfDb.wf

\* a step of sync_agent_tools that inserts an association row, or deletes one
AssocAdded == tm.op = "sync_agent_tools" /\ assocRows' \ assocRows # {}
AssocRemoved == tm.op = "sync_agent_tools" /\ assocRows \ assocRows' # {}

\* C34: within sync_agent_tools a tool row is written only while no
\* association has changed, an association changes only after the loop over
\* the declared tools has ended, an association is added only when none of
\* those to remove is left and none is removed after an addition; and in
\* every state of the sync each association row has the tool row of its id.
C34_SyncOrder ==
    /\ [][/\ (tm.op = "sync_agent_tools" /\ toolRows' # toolRows) =>
                 /\ tm.pc = "upsert"
                 /\ assocRows = tm.before
          /\ (AssocAdded \/ AssocRemoved) => tm.i > Len(tm.tools)
          /\ AssocAdded =>
                 AgentToolIds(assocRows, tm.scope, tm.agent)
                     \cap tools_to_remove(tm.current, tm.new) = {}
          /\ AssocRemoved => tm.added = 0]_vars
    /\ [](tm.op = "sync_agent_tools" =>
              \A r \in assocRows : get_tool(toolRows, r.toolId))

\* a sync that wrote a tool row, removed an association and added one has returned
C34_Witness ==
    /\ tm.op = "sync_agent_tools" /\ tm.pc = "done"
    /\ tm.removed > 0 /\ tm.added > 0
    /\ \E t \in toolRows : t.name # "old"

(***************************************************************************)
(* add_edge_to_workflow                                                    *)
(***************************************************************************)

\* SELECT COUNT(*) as count FROM {node_table} WHERE id = %s; count > 0
_validate_node_exists(rows, node_id) == \E r \in rows : r.id = node_id

\* with WorkflowManager() as wm: wm.add_edge_to_workflow(workflow_id, source_node_id, scope, target_node_id)
\* Its INSERT names the columns "workflowId", "sourceNodeId", "targetNodeId", ...,
\* not the workflow_id, source_node_id, ... of _sync_workflow_edges: the table
\* has them and the row is inserted, or the server rejects the statement.
add_edge_to_workflow(wid, source_node_id, scope, target_node_id) ==
    /\ wm.pc = "idle" /\ ~edited
    /\ LET w == [WmEnter EXCEPT !.op = "add_edge_to_workflow", !.scope = scope,
                               !.wid = wid, !.before = wfDb]
           node_table == TableRows(wfTx, _get_table_name(scope, "WORKFLOW_NODE"))
       IN IF ~_validate_node_exists(node_table, source_node_id)
          THEN \* raise ValueError("Source node ... does not exist in scope ...")
               /\ wm' = [w EXCEPT !.pc = "raised", !.outcome = "ValueError"]
               /\ UNCHANGED <<wfDb, wfTx, uuids>>
          ELSE IF target_node_id # None
                  /\ ~_validate_node_exists(node_table, target_node_id)
          THEN \* raise ValueError("Target node ... does not exist in scope ...")
               /\ wm' = [w EXCEPT !.pc = "raised", !.outcome = "ValueError"]
               /\ UNCHANGED <<wfDb, wfTx, uuids>>
          ELSE /\ uuids < MaxUuids
               /\ uuids' = uuids + 1
               /\ \E accepted \in BOOLEAN :
                    IF accepted
                    THEN \* the INSERT and self.conn.commit(); return edge_id
                         /\ wfDb' = [wfTx EXCEPT !.edges = @ \cup
                                       {[id |-> uuid4, wf |-> wid,
                                         src |-> source_node_id,
                                         tgt |-> target_node_id]}]
                         /\ wfTx' = wfDb'
                         /\ wm' = [w EXCEPT !.pc = "done", !.outcome = "ok",
                                            !.result = uuid4]
                    ELSE /\ wm' = [w EXCEPT !.pc = "raised", !.outcome = "rejected"]
                         /\ UNCHANGED <<wfDb, wfTx>>
    /\ UNCHANGED <<wfDirs, agentVars, toolVars, edited, calls>>

\* the node ids a caller may pass: those create_workflow generates and one
\* that no node has
NodeArgs == Range(UuidPool) \cup {"w9n9"}

\* create_workflow, sync_workflow_to_db and delete_workflow on w1 and w2, and
\* edges added to either
NextEdges ==
    \/ NextWfCreate
    \/ \E w \in WfIds, s \in NodeArgs, t \in NodeArgs \cup {None} :
           add_edge_to_workflow(w, s, "SYSTEM", t)

SpecEdges == InitWf /\ [][NextEdges]_vars

\* C35: when add_edge_to_workflow has returned for workflow W, the source of
\* the edge it made is a node of W and so is the target, if one was given;
\* when it has raised for a node it did not find, the tables are as before.
C35_EdgeNodesBelong ==
    /\ (wm.op = "add_edge_to_workflow" /\ wm.pc = "done") =>
          \A e \in wfDb.edges :
              e.id = wm.result =>
                  /\ e.wf = wm.wid
                  /\ \E n \in RowsOf(wfDb, wm.wid).nodes : n.id = e.src
                  /\ e.tgt # None => \E n \in RowsOf(wfDb, wm.wid).nodes : n.id = e.tgt
    /\ (wm.op = "add_edge_to_workflow" /\ wm.pc = "raised") => wfDb = wm.before

\* C36: no step of cleanup_orphaned_tools deletes a tool row whose id an
\* association row of either scope holds; without force the call returns 0
\* and leaves both tables as they were; with force it returns the number of
\* tools find_orphaned_tools returned at its start, exactly those tool rows
\* are gone, no association row has changed, and find_orphaned_tools then
\* returns nothing.
C36_Cleanup ==
    /\ [][tm.op = "cleanup_orphaned_tools" =>
              \A t \in toolRows \ toolRows' :
                  ~\E r \in assocRows : r.toolId = t.id]_vars
    /\ []((tm.op = "cleanup_orphaned_tools" /\ tm.pc = "done" /\ ~tm.force) =>
              /\ tm.deleted = 0
              /\ toolRows = tm.toolsBefore
              /\ assocRows = tm.before)
    /\ []((tm.op = "cleanup_orphaned_tools" /\ tm.pc = "done" /\ tm.force) =>
              /\ tm.orphans = find_orphaned_tools(tm.toolsBefore, tm.before)
              /\ tm.deleted = Cardinality(tm.orphans)
              /\ toolRows = tm.toolsBefore \ tm.orphans
              /\ assocRows = tm.before
              /\ find_orphaned_tools(toolRows, assocRows) = {})

\* a forced cleanup has deleted an orphaned tool beside a tool that an agent holds
C36_Witness ==
    /\ tm.op = "cleanup_orphaned_tools" /\ tm.pc = "done" /\ tm.force
    /\ tm.deleted > 0
    /\ \E t \in toolRows : \E r \in assocRows : r.toolId = t.id

\* sync_agent_from_db and sync_agent_to_db on a database that holds the agent
\* alice (a1) of scope s with the associations C and no local directory: a
\* directory is there only once sync_agent_from_db has written it
InitFromDb ==
    /\ InitIdle
    /\ \E s \in Scopes, C \in SUBSET ToolIds, others \in BOOLEAN :
         LET beside == IF others
                       THEN AssocRowsFor(s, "a2", {"t1"})
                                \cup AssocRowsFor(OtherScope(s), "a1", {"t2"})
                       ELSE {}
         IN /\ agentRows = {AgentRow(s, "a1", "alice")}
            /\ assocRows = AssocRowsFor(s, "a1", C) \cup beside
            /\ toolRows = ToolRowsFor({r.toolId : r \in assocRows})
    /\ amTx = agentRows
    /\ agentDirs = [k \in Scopes \X Names |-> NoDir]
    /\ wfDirs = [k \in Scopes \X WfIds |-> NoWf]

NextFromDb ==
    \/ \E n \in Names, s \in Scopes : sync_agent_from_db(n, s)
    \/ \E n \in Names, s \in Scopes : sync_agent_to_db_Begin(n, s)
    \/ sync_agent_to_db_Commit
    \/ sync_agent_to_db_Tools
    \/ sync_agent_to_db_ToolsEnd
    \/ sync_agent_to_db_Return
    \/ AgentManager_exit
    \/ sync_agent_tools_Diff
    \/ sync_agent_tools_Remove
    \/ sync_agent_tools_AddBegin
    \/ sync_agent_tools_Return

SpecFromDb == InitFromDb /\ [][NextFromDb]_vars

\* C37: when sync_agent_from_db has returned, the jsonSchema.json it wrote has
\* the agent's id and a tools list that is empty, whatever associations the
\* agent has; and when sync_agent_to_db has then returned for that directory,
\* the agent has no association left in its scope.
C37_FromDbDropsTools ==
    /\ (am.op = "sync_agent_from_db" /\ am.pc = "done") =>
          /\ agentDirs[<<am.scope, am.name>>].present
          /\ agentDirs[<<am.scope, am.name>>].agentId = am.agentId
          /\ agentDirs[<<am.scope, am.name>>].hasTools
          /\ agentDirs[<<am.scope, am.name>>].tools = <<>>
    /\ (am.op = "sync_agent_to_db" /\ am.pc = "done") =>
          AgentToolIds(assocRows, am.scope, am.agentId) = {}

\* the sync to the database after the sync from it has removed associations
C37_Witness ==
    /\ am.op = "sync_agent_to_db" /\ am.pc = "done" /\ am.removed > 1
    /\ agentDirs[<<am.scope, am.name>>].tools = <<>>
    /\ AgentToolIds(assocRows, am.scope, am.agentId) = {}

\* the commands of SpecAgents on a database that may reject a DELETE of an association
NextAgentsFault ==
    \/ NextAgents
    \/ sync_agent_tools_RemoveFails

SpecAgentsFault == InitAgents /\ [][NextAgentsFault]_vars

\* the row sync_agent_to_db upserted is in the committed table of its scope
AgentRowCommitted ==
    \E r \in agentRows : r.scope = am.scope /\ r.id = am.agentId /\ r.name = am.name

\* the tool ids and the association rows a step writes or deletes
ToolIdsChanged == {r.id : r \in (toolRows' \ toolRows) \cup (toolRows \ toolRows')}
AssocChanged == (assocRows' \ assocRows) \cup (assocRows \ assocRows')

\* C38: while sync_agent_to_db synchronises the tools, the agent row it
\* upserted is already committed and the ToolManager works on a connection of
\* its own; each step of the tool sync commits one tool row or one
\* association row; and once the sync has raised, nothing is undone: the
\* agent row is committed and the tool and association rows stay as the
\* steps before the failure left them.
C38_NotAtomic ==
    /\ []((am.op = "sync_agent_to_db" /\ am.pc \in {"tools", "wait"}) =>
              /\ AgentRowCommitted
              /\ am.conn
              /\ tm.caller = "am" => tm.conn)
    /\ [][(tm.op = "sync_agent_tools" /\ tm.caller = "am") =>
              Cardinality(ToolIdsChanged) + Cardinality(AssocChanged) <= 1]_vars
    /\ [][((tm.caller = "am" /\ tm.pc = "raised")
             \/ (am.op = "sync_agent_to_db" /\ am.pc = "raised")) =>
              /\ toolRows' = toolRows
              /\ assocRows' = assocRows
              /\ agentRows' = agentRows]_vars
    /\ []((am.op = "sync_agent_to_db" /\ am.pc = "raised" /\ am.agentId # None) =>
              AgentRowCommitted)

\* the tool sync of sync_agent_to_db has raised after it had written a tool
\* row and removed an association
C38_Witness ==
    /\ am.op = "sync_agent_to_db" /\ am.pc = "wait"
    /\ tm.caller = "am" /\ tm.pc = "raised"
    /\ AgentRowCommitted
    /\ assocRows # tm.before
    /\ \E t \in toolRows : t.name # "old"

\* the commands of SpecAgents on a database in which, beside alice (a1) with
\* t1 and t3 in scope s, agent a2 holds t1 in scope s and an agent a1 of the
\* other scope holds t2; alice's definition names the agent a1 or a2
InitAgentsBeside ==
    /\ InitIdle
    /\ \E s \in Scopes, d \in {x \in AgentDefs : x.agentId # None} :
         /\ agentDirs = [k \in Scopes \X Names |-> IF k = <<s, "alice">> THEN d ELSE NoDir]
         /\ agentRows = {AgentRow(s, "a1", "alice")}
         /\ assocRows = AssocRowsFor(s, "a1", {"t1", "t3"})
                           \cup AssocRowsFor(s, "a2", {"t1"})
                           \cup AssocRowsFor(OtherScope(s), "a1", {"t2"})
    /\ toolRows = ToolRowsFor(ToolIds)
    /\ amTx = agentRows
    /\ wfDirs = [k \in Scopes \X WfIds |-> NoWf]

SpecAgentsBeside == InitAgentsBeside /\ [][NextAgents]_vars

\* C39: a step of sync_agent_tools for agent A in scope S inserts or deletes
\* only association rows of agent A in scope S; no step of a sync_agent_to_db
\* whose jsonSchema.json has no tools key changes an association row; and
\* when sync_agent_to_db has returned for a schema whose tools list is empty,
\* the agent has no association in its scope.
C39_ToolSyncFrame ==
    /\ [][tm.op = "sync_agent_tools" =>
              \A r \in AssocChanged : r.scope = tm.scope /\ r.agentId = tm.agent]_vars
    /\ [][(/\ am.op = "sync_agent_to_db" /\ am.agentId # None
           /\ ~agentDirs[<<am.scope, am.name>>].hasTools) =>
              assocRows' = assocRows]_vars
    /\ []((/\ am.op = "sync_agent_to_db" /\ am.pc = "done"
           /\ agentDirs[<<am.scope, am.name>>].hasTools
           /\ agentDirs[<<am.scope, am.name>>].tools = <<>>) =>
              AgentToolIds(assocRows, am.scope, am.agentId) = {})

\* a tool sync has removed and added associations of its agent while another
\* agent and the other scope hold associations
C39_Witness ==
    /\ tm.op = "sync_agent_tools" /\ tm.pc = "done"
    /\ tm.removed > 0 /\ tm.added > 0
    /\ \E r \in assocRows : r.scope = tm.scope /\ r.agentId # tm.agent
    /\ \E r \in assocRows : r.scope # tm.scope

====
